---- MODULE Spec2Model ----
\* Verification model of crescendo-ai: the serial frame reader and the
\* command/ACK engine of PresenceSensor (src/crescendo_ai/sensor.py) and the
\* presence-fusion control loop of CrescendoSystem (src/crescendo_ai/main.py).
\*
\* Bytes are naturals 0..255, byte strings are sequences of bytes.
\* The specifications share the variables:
\*   SpecFrame      - _read_frame over a byte stream split into transport reads
\*   SpecFrameLive  - the same on the data channel, with its timeout met
\*   SpecResync     - _read_frame over streams of noise before a frame
\*   SpecCmd        - _send_command / restart / configure against a device
\*   SpecLoop       - _check_presence_and_update ticks against the reader thread
\*   SpecPlayback   - the same loop for a short time, every observation kept
\*   SpecRead       - read_data passes of the reader thread
\*   SpecLock       - the reader thread and the accessors around _thread_lock
\*   SpecThread     - connect, start_reading, commands, disconnect and readers
\*   SpecThreadLive - the same with the readers scheduled fairly
\*   SpecRun        - CrescendoSystem.run from initialize to its return
EXTENDS Naturals, Integers, Sequences, FiniteSets, TLC

VARIABLES
    \* ---- transport and _read_frame ------------------------------------
    channel,        \* "data" or "cmd": the header/footer pair of the call
    wire,           \* bytes the device has sent that have not arrived yet
    inbuf,          \* the serial input buffer (in_waiting = Len(inbuf))
    buffer,         \* the local variable buffer of the running _read_frame
    rf_pc,          \* "idle" | "loop": position of the _read_frame caller
    rf_result,      \* the (frame, frame_length) of the last call that returned
    returned,       \* the non-empty frames returned so far, in order
    sent,           \* the valid frames the stream was built from, in order
    stream,         \* the whole stream, as it was before any byte arrived
    enc,            \* [w, p] when the stream is one encoded command, else NoEnc
    cut,            \* TRUE once a call timed out holding a partial buffer
    \* ---- PresenceSensor: connection, _send_command, configure ----------
    is_connected,   \* _is_connected and the serial port is open
    stack,          \* the running _send_command activations, outermost first
    exchanges,      \* frames written since the outermost call began
    restarts,       \* restart frames written since the outermost call began
    last_response,  \* (frame, length) read by the last attempt of the outermost call
    outcome,        \* how the last outermost call ended, a record (see NoOutcome)
    cfg_pc,         \* position of configure / restart, "idle" when none runs
    cfg_args,       \* [motion_sensitivity, static_sensitivity] of the configure
    gate,           \* loop variable of configure's sensitivity loop
    calls,          \* [word, result] of each _send_command call configure/restart made
    writes,         \* frames written to the serial port by it, in order
    cfg_result,     \* "none" | "success" | "failure" | "raised"
    faults,         \* exchanges of the running configure/restart that went wrong
    \* ---- CrescendoSystem: the control loop and its collaborators --------
    now,                            \* time.time(), in seconds
    target_status,                  \* _last_data.get('target_status', 0)
    dynamic_detection_history,      \* timestamps of ticks that saw motion
    dynamic_detection_active_until, \* a timestamp, or NoTime for None
    last_presence_time,             \* a timestamp, or NoTime for None
    tick_pc,                        \* "due" | "static" | "sleep"
    current_time,                   \* local of the tick
    dynamic_detection_active,       \* local of the tick
    static_detected,                \* local of the tick
    robust_presence_detected,       \* local of the tick
    tick_raised,                    \* the last tick ended in its except clause
    called,                         \* collaborator methods the last tick invoked
    playing,                        \* audio_player.is_playing()
    relay_connected,                \* relay.is_connected()
    relay_on,                       \* the relay channel is energized
    motion_log,                     \* times of the first ticks that saw motion
    plays,                          \* audio_player.play() invocations so far
    static_log,                     \* times of the first ticks that saw a static target
    presence_detected,              \* sensor._presence_detected
    presence_since,                 \* since when it is True, or NoTime
    observed,                       \* the run keeps static_log, plays, presence_since
    moving_decoded,                 \* moving readings decoded so far (observed runs, up to MaxLog)
    \* ---- PresenceSensor: read_data and the reader thread ----------------
    last_data,      \* _last_data, a dict (see EmptyDict)
    read_result,    \* what the last read_data call returned
    prev_data,      \* _last_data as it was when the last read_data call began
    read_frame,     \* the (frame, frame_length) the last read_data call parsed
    thread_lock,    \* who holds _thread_lock: "free" | "reader" | "main"
    reader_pc,      \* the reader's pass: "read_data" | "acquire" | "publish"
    accessor,       \* the accessor the main thread is inside, or "none"
    accessor_value, \* what the last accessor call returned
    \* ---- PresenceSensor: the reader thread and its callers ---------------
    timeout,        \* self.timeout, in half seconds
    thread_running, \* _thread_running, the running flag
    read_thread,    \* _read_thread: the thread it names, NoThread for None
    threads,        \* per reader thread: [pc, left, last] (see Unborn)
    main_pc,        \* the calling thread: "idle" | "join" | "exchange"
    join_left,      \* time left of the join in _stop_read_thread
    since_stop,     \* time since the running flag was cleared, while a reader lives
    \* ---- CrescendoSystem.run ---------------------------------------------
    run_pc,             \* position of run(), "none" when it was not called
    audio_initialized   \* audio_player.is_initialized()

frameVars == <<channel, wire, inbuf, buffer, rf_pc, rf_result,
               returned, sent, stream, enc, cut>>

cmdVars == <<is_connected, stack, exchanges, restarts, last_response, outcome,
             cfg_pc, cfg_args, gate, calls, writes, cfg_result, faults>>

loopVars == <<now, target_status, dynamic_detection_history,
              dynamic_detection_active_until, last_presence_time, tick_pc,
              current_time, dynamic_detection_active, static_detected,
              robust_presence_detected, tick_raised, called, playing,
              relay_connected, relay_on, motion_log, plays, static_log,
              presence_detected, presence_since, observed,
                   moving_decoded>>

\* the transport's variables other than the input buffer
frameRest == <<channel, wire, buffer, rf_pc, rf_result, returned, sent, stream,
               enc, cut>>

readVars == <<last_data, read_result, prev_data, read_frame, thread_lock,
              reader_pc, accessor, accessor_value>>

threadVars == <<timeout, thread_running, read_thread, threads, main_pc,
                join_left, since_stop>>

\* the command engine's variables other than the connection
cmdRest == <<stack, exchanges, restarts, last_response, outcome,
             cfg_pc, cfg_args, gate, calls, writes, cfg_result, faults>>

runVars == <<run_pc, audio_initialized>>

vars == <<frameVars, cmdVars, loopVars, readVars, threadVars, runVars>>

----------------------------------------------------------------------------
\* Bounds of the model

MaxSegments == 2        \* segments (frames or garbage chunks) per stream
MaxDepth == 4           \* nested _send_command activations before RecursionError
MaxGates == 2           \* longest sensitivity list passed to configure
MaxFaults == 4          \* exchanges that go wrong within one configure/restart
MaxTime == 905          \* the control loop is followed up to this time
MaxStep == 2            \* longest time between two early ticks
ReadingsUntil == 3      \* readings change and ticks are irregular up to this time
MaxLog == 4             \* ticks recorded in motion_log and static_log
MaxObservedTime == 6    \* an observed run of the control loop is followed up to this time
MaxPieces == 2          \* noise pieces per stream of the resynchronization runs
MaxThreads == 2         \* reader threads started in one run

----------------------------------------------------------------------------
\* Protocol constants

FRAME_HEADER == <<253, 252, 251, 250>>
FRAME_FOOTER == <<4, 3, 2, 1>>
DATA_FRAME_HEADER == <<244, 243, 242, 241>>
DATA_FRAME_FOOTER == <<248, 247, 246, 245>>

CMD_ENABLE_CONFIG == 255
CMD_END_CONFIG == 254
CMD_SET_DISTANCE_PARAMS == 96
CMD_SET_SENSITIVITY == 100
CMD_RESTART == 163

\* PresenceSensor: times in half seconds
DEFAULT_TIMEOUT == 2        \* timeout: float = 1.0
JOIN_TIMEOUT == 4           \* self._read_thread.join(timeout=2.0)
READER_SLEEP == 1           \* time.sleep(0.1) of the reader loop: within one unit

\* CrescendoSystem
DYNAMIC_DETECTION_DURATION == 300
DYNAMIC_WINDOW == 3
CHECK_INTERVAL == 1
RELAY_OFF_DELAY == 900

HeaderOf(ch) == IF ch = "data" THEN DATA_FRAME_HEADER ELSE FRAME_HEADER
FooterOf(ch) == IF ch = "data" THEN DATA_FRAME_FOOTER ELSE FRAME_FOOTER

----------------------------------------------------------------------------
\* Byte-string helpers (Python slicing, bytes.find, struct)

Min(a, b) == IF a < b THEN a ELSE b

\* Python s[i:j] for 0 <= i, 0 <= j, with clamping at the end of s
Slice(s, i, j) ==
    LET hi == Min(j, Len(s))
    IN  IF i >= hi THEN <<>> ELSE SubSeq(s, i + 1, hi)

\* Python s[i:]
From(s, i) == Slice(s, i, Len(s))

\* Python s[-n:]
Last(s, n) == IF Len(s) > n THEN SubSeq(s, Len(s) - n + 1, Len(s)) ELSE s

\* bytes.find: lowest 0-based index where pat occurs in s, or -1
Find(s, pat) ==
    LET hits == {i \in 0..(Len(s) - Len(pat)) :
                    Len(s) >= Len(pat) /\ Slice(s, i, i + Len(pat)) = pat}
    IN  IF hits = {} THEN -1
        ELSE CHOOSE i \in hits : \A j \in hits : i <= j

\* struct.pack('<H', n) for 0 <= n <= 65535
PackH(n) == <<n % 256, (n \div 256) % 256>>

\* struct.unpack('<H', b)[0] for a 2-byte string
UnpackH(b) == b[1] + 256 * b[2]

Concat(ss) ==
    LET RECURSIVE cat(_)
        cat(i) == IF i > Len(ss) THEN <<>> ELSE ss[i] \o cat(i + 1)
    IN  cat(1)

----------------------------------------------------------------------------
\* Frame codec

\* A frame as it is on the wire: HEADER(4) | LENGTH:u16-LE | PAYLOAD | FOOTER(4)
BuildFrame(ch, payload) ==
    HeaderOf(ch) \o PackH(Len(payload)) \o payload \o FooterOf(ch)

\* A mutation of EncodeCommand: the command word packed big endian
EncodeCommandBigEndian(command_word, command_data) ==
    FRAME_HEADER \o PackH(2 + Len(command_data))
        \o <<(command_word \div 256) % 256, command_word % 256>>
        \o command_data \o FRAME_FOOTER

\* The command frame _send_command builds: the payload is the command word
\* (little endian) followed by the command data, data_length = 2 + len(data)
EncodeCommand(command_word, command_data) ==
    FRAME_HEADER \o PackH(2 + Len(command_data)) \o PackH(command_word)
        \o command_data \o FRAME_FOOTER

\* total_frame_size = 4 + 2 + frame_length + 4
TotalFrameSize(frame_length) == 4 + 2 + frame_length + 4

\* A mutation of SkipAfterBadFooter: the whole candidate is dropped
SkipWholeCandidate(buf) == From(buf, TotalFrameSize(UnpackH(Slice(buf, 4, 6))))

\* What the footer mismatch branch leaves in the buffer: buffer[4:]
SkipAfterBadFooter(buf) == From(buf, 4)

\* A mutation of KeepWhenNoHeader: nothing is kept
KeepNothing(buf) == <<>>

\* What the no-header branch leaves in the buffer: buffer[-3:]
KeepWhenNoHeader(buf) == IF Len(buf) > 3 THEN Last(buf, 3) ELSE buf

\* A mutation of FooterMatches: any last 4 bytes pass
FooterMatchesAny(frame, frame_footer) == Len(frame) >= 4

\* "if frame[-4:] != frame_footer" is the negation of this
FooterMatches(frame, frame_footer) == Last(frame, 4) = frame_footer

NoFrame == [found |-> FALSE, frame |-> <<>>, length |-> 0, buffer |-> <<>>]

\* The inner loop of _read_frame ("while len(buffer) >= 4") run on buf:
\* either it returns a frame, or it breaks and leaves a buffer behind.
RECURSIVE ProcessBuffer(_, _, _)
ProcessBuffer(buf, frame_header, frame_footer) ==
    IF Len(buf) < 4 THEN [NoFrame EXCEPT !.buffer = buf]
    ELSE
      LET header_pos == Find(buf, frame_header) IN
      IF header_pos = -1
      THEN [NoFrame EXCEPT !.buffer = KeepWhenNoHeader(buf)]
      ELSE
        LET b == IF header_pos > 0 THEN From(buf, header_pos) ELSE buf IN
        IF Len(b) < 6 THEN [NoFrame EXCEPT !.buffer = b]
        ELSE
          LET frame_length == UnpackH(Slice(b, 4, 6))
              total_frame_size == TotalFrameSize(frame_length)
          IN
          IF Len(b) < total_frame_size THEN [NoFrame EXCEPT !.buffer = b]
          ELSE
            LET frame == Slice(b, 0, total_frame_size) IN
            IF ~FooterMatches(frame, frame_footer)
            THEN ProcessBuffer(SkipAfterBadFooter(b), frame_header, frame_footer)
            ELSE [found |-> TRUE, frame |-> frame, length |-> frame_length,
                  buffer |-> b]

----------------------------------------------------------------------------
\* Parsing of data frames (_parse_data_frame and its helpers)

\* A dict is a function from the keys the parsers can set to a value, Absent
\* for a key the dict does not hold.  True and False are 1 and 0.  The keys
\* data_type_name and target_state (names derived from data_type and
\* target_status) and gate_energies are left out: nothing reads them.
Absent == 0 - 1

Keys == {"data_type", "target_status", "move_distance", "move_energy",
         "static_distance", "static_energy", "detection_distance",
         "presence", "max_move_gate", "max_static_gate"}

EmptyDict == [k \in Keys |-> Absent]

\* bool(d) of a dict
Truthy(d) == d # EmptyDict

\* d.get(k, default)
Get(d, k, default) == IF d[k] = Absent THEN default ELSE d[k]

\* d.update(e)
DictUpdate(d, e) == [k \in Keys |-> IF e[k] # Absent THEN e[k] ELSE d[k]]

ParseBasicTargetData(target_data) ==
    IF Len(target_data) < 10 THEN EmptyDict
    ELSE [EmptyDict EXCEPT
            !["target_status"] = target_data[1],
            !["move_distance"] = UnpackH(Slice(target_data, 1, 3)),
            !["move_energy"] = target_data[4],
            !["static_distance"] = UnpackH(Slice(target_data, 4, 6)),
            !["static_energy"] = target_data[7],
            !["detection_distance"] = UnpackH(Slice(target_data, 7, 9)),
            !["presence"] = IF target_data[1] > 0 THEN 1 ELSE 0]

ParseEngineeringData(target_data) ==
    IF Len(target_data) >= 10
    THEN LET basic == ParseBasicTargetData(Slice(target_data, 0, 10))
             eng_data == From(target_data, 10)
         IN  IF Len(target_data) > 10 /\ Len(eng_data) >= 2
             THEN [basic EXCEPT !["max_move_gate"] = eng_data[1],
                                !["max_static_gate"] = eng_data[2]]
             ELSE basic
    ELSE EmptyDict

\* "if head != 0xAA: return {}"
MarkerOk(head) == head = 170

ParseDataFrame(frame, data_length) ==
    IF Len(frame) < 10 THEN EmptyDict
    ELSE
      LET header == Slice(frame, 0, 4)
          data_portion == Slice(frame, 6, 6 + data_length)
          footer == Slice(frame, 6 + data_length, 6 + data_length + 4)
      IN
      IF header # DATA_FRAME_HEADER \/ footer # DATA_FRAME_FOOTER THEN EmptyDict
      ELSE IF Len(data_portion) < 3 THEN EmptyDict
      ELSE
        LET data_type == data_portion[1]
            head == data_portion[2]
            result == [EmptyDict EXCEPT !["data_type"] = data_type]
        IN
        IF ~MarkerOk(head) THEN EmptyDict
        ELSE IF data_type = 2
             THEN DictUpdate(result, ParseBasicTargetData(From(data_portion, 2)))
        ELSE IF data_type = 1
             THEN DictUpdate(result, ParseEngineeringData(From(data_portion, 2)))
        ELSE result

\* is_static_target_detected / is_moving_target_detected read
\* self._last_data.get('target_status', 0)
StatusOf(d) == Get(d, "target_status", 0)

----------------------------------------------------------------------------
\* Streams the device can put on the wire (inputs of SpecFrame)

EmptyResult == <<<<>>, 0>>      \* the (b'', 0) of _read_frame
NoEnc == [w |-> 0 - 1, p |-> <<>>]

StreamPayloads == {<<>>, <<2, 170>>}

\* A header and a length field of 5 with one byte behind them: the rest of
\* the frame never arrives
TruncatedFrame(ch) == Slice(BuildFrame(ch, <<2, 170, 0, 0, 0>>), 0, 7)

Garbage(ch) ==
    {<<0>>, Slice(HeaderOf(ch), 0, 3), HeaderOf(ch), FooterOf(ch),
     TruncatedFrame(ch)}

ValidFrames(ch) == {BuildFrame(ch, p) : p \in StreamPayloads}

Segments(ch) == ValidFrames(ch) \cup Garbage(ch)

SegmentLists(ch) == UNION {[1..n -> Segments(ch)] : n \in 0..MaxSegments}

\* The valid frames a segment list was built from, in order
FramesOf(ch, segs) == SelectSeq(segs, LAMBDA s : s \in ValidFrames(ch))

CommandWords == {CMD_ENABLE_CONFIG, CMD_END_CONFIG, CMD_SET_DISTANCE_PARAMS,
                 CMD_SET_SENSITIVITY, CMD_RESTART, 511, 65535}

CommandDatas == {<<>>, <<1, 0>>, <<253, 252, 251, 250>>, <<4, 3, 2, 1, 0>>}

----------------------------------------------------------------------------
\* The control loop

NoTime == 0 - 1         \* None

\* CrescendoSystem.__init__, and the collaborators before the loop starts
LoopAtRest ==
    /\ now = 0
    /\ target_status = 0
    /\ dynamic_detection_history = <<>>
    /\ dynamic_detection_active_until = NoTime
    /\ last_presence_time = NoTime
    /\ tick_pc = "due"
    /\ current_time = 0
    /\ dynamic_detection_active = FALSE
    /\ static_detected = FALSE
    /\ robust_presence_detected = FALSE
    /\ tick_raised = FALSE
    /\ called = {}
    /\ playing = FALSE
    /\ relay_connected = FALSE
    /\ relay_on = FALSE
    /\ motion_log = <<>>
    /\ plays = 0
    /\ static_log = <<>>
    /\ presence_detected = FALSE
    /\ presence_since = NoTime
    /\ observed = FALSE
    /\ moving_decoded = 0

\* PresenceSensor.__init__: _last_data = {}, no read_data call made yet
ReadAtRest ==
    /\ last_data = EmptyDict
    /\ read_result = EmptyDict
    /\ prev_data = EmptyDict
    /\ read_frame = EmptyResult
    /\ thread_lock = "free"
    /\ reader_pc = "read_data"
    /\ accessor = "none"
    /\ accessor_value = 0

\* CrescendoSystem.__init__: run() not called, the audio player not initialized
RunAtRest ==
    /\ run_pc = "none"
    /\ audio_initialized = FALSE

NoThread == 0

Threads == 1..MaxThreads

\* A reader thread: pc is "unborn" | "check" (the while condition) | "read"
\* (in read_data) | "sleep" | "exited"; left is the time left of the read or
\* of the sleep; last is how its last read_data call ended
Unborn == [pc |-> "unborn", left |-> 0, last |-> "none"]

\* PresenceSensor.__init__: _read_thread = None, _thread_running = False
ThreadAtRest ==
    /\ timeout = DEFAULT_TIMEOUT
    /\ thread_running = FALSE
    /\ read_thread = NoThread
    /\ threads = [t \in Threads |-> Unborn]
    /\ main_pc = "idle"
    /\ join_left = 0
    /\ since_stop = 0

\* The payload of a basic target report: type 0x02, marker 0xAA, the status,
\* three distances and two energies, then the tail 0x55 and the check 0x00
BasicPayload(status) == <<2, 170, status, 30, 0, 40, 50, 0, 60, 70, 0, 85, 0>>

\* The dict a basic target report parses to
BasicReading(status) ==
    ParseDataFrame(BuildFrame("data", BasicPayload(status)),
                   Len(BasicPayload(status)))

\* is_moving_target_detected: target status 0x01 or 0x03
IsMoving(status) == status \in {1, 3}

\* is_static_target_detected: target status 0x02 or 0x03
IsStatic(status) == status \in {2, 3}

\* A mutation of Prune: entries exactly 3 seconds old are dropped as well
PruneStrict(history, t) ==
    SelectSeq(history, LAMBDA h : t - h < DYNAMIC_WINDOW)

\* A mutation of Prune: nothing is dropped
PruneNothing(history, t) == history

\* [t for t in history if current_time - t <= 3.0]
Prune(history, t) ==
    SelectSeq(history, LAMBDA h : t - h <= DYNAMIC_WINDOW)

\* len(self.dynamic_detection_history) >= 3
ContinuousDetection(history) == Len(history) >= 3

\* A mutation of StillActive: the tick at active-until itself still counts
StillActiveInclusive(until, t) == until # NoTime /\ until # 0 /\ t <= until

\* self.dynamic_detection_active_until and current_time < it
StillActive(until, t) == until # NoTime /\ until # 0 /\ t < until

\* A mutation of Robust: either evidence is enough
RobustEither(dynamic_active, static) == dynamic_active \/ static

\* robust_presence_detected = dynamic_detection_active and static_detected
Robust(dynamic_active, static) == dynamic_active /\ static

\* relay_timeout_is_complete
RelayTimeoutIsComplete(last_presence, t) ==
    last_presence # NoTime /\ t - last_presence > RELAY_OFF_DELAY

\* 'presence': target_status > 0
PresenceOf(status) == status > 0

\* USBRelay defines connect, disconnect, is_connected, turn_on, turn_off and
\* _send_command: it has no is_turned_on, so calling it raises AttributeError
RelayHasIsTurnedOn == FALSE

\* self.relay.is_connected() and not self.relay.is_turned_on(), line 215:
\* "on" to call turn_on, "none" to go on, "raise" for the AttributeError
RelayOnStep(connected, on) ==
    IF ~connected THEN "none"
    ELSE IF ~RelayHasIsTurnedOn THEN "raise"
    ELSE IF ~on THEN "on" ELSE "none"

\* A mutation of RelayOffStep: a connected, energized relay is switched off
\* whatever the time since the last presence
RelayOffStepEager(connected, on, timeout_is_complete) ==
    IF connected /\ on THEN "off" ELSE "none"

\* self.relay.is_connected() and self.relay.is_turned_on() and
\* relay_timeout_is_complete, line 246: "off" to call turn_off
RelayOffStep(connected, on, timeout_is_complete) ==
    IF ~connected THEN "none"
    ELSE IF ~RelayHasIsTurnedOn THEN "raise"
    ELSE IF on /\ timeout_is_complete THEN "off" ELSE "none"

----------------------------------------------------------------------------
\* The command engine at rest

NoOutcome == [word |-> 0 - 1, result |-> "none", attempts |-> 0,
              first_desync |-> FALSE, write_error |-> FALSE]

NoArgs == [motion_sensitivity |-> <<>>, static_sensitivity |-> <<>>]

SensValues == {75, 0 - 1}      \* a sensitivity, and a value struct.pack rejects

SensLists == UNION {[1..n -> SensValues] : n \in 0..MaxGates}

FullList == [i \in 1..MaxGates |-> 75]

\* The sensitivity lists configure is called with
ConfigureArgs ==
    {[motion_sensitivity |-> ms, static_sensitivity |-> FullList] : ms \in SensLists}
        \cup {[motion_sensitivity |-> FullList, static_sensitivity |-> <<>>]}

\* The transport with nothing on it and no _read_frame call running
FrameAtRest ==
    /\ channel = "cmd"
    /\ wire = <<>>
    /\ inbuf = <<>>
    /\ buffer = <<>>
    /\ rf_pc = "idle"
    /\ rf_result = EmptyResult
    /\ returned = <<>>
    /\ sent = <<>>
    /\ stream = <<>>
    /\ enc = NoEnc
    /\ cut = FALSE

\* The state of the engine after PresenceSensor.__init__, no call running
CmdAtRest ==
    /\ stack = <<>>
    /\ exchanges = 0
    /\ restarts = 0
    /\ last_response = EmptyResult
    /\ outcome = NoOutcome
    /\ cfg_pc = "idle"
    /\ cfg_args = NoArgs
    /\ gate = 0
    /\ calls = <<>>
    /\ writes = <<>>
    /\ cfg_result = "none"
    /\ faults = 0

----------------------------------------------------------------------------
\* SpecFrame: _read_frame calls over a stream that arrives in pieces

InitFrame ==
    /\ \/ /\ channel = "data"
          /\ \E segs \in SegmentLists("data") :
                /\ wire = Concat(segs)
                /\ sent = FramesOf("data", segs)
          /\ enc = NoEnc
       \/ /\ channel = "cmd"
          /\ \E w \in CommandWords, p \in CommandDatas :
                /\ wire = EncodeCommand(w, p)
                /\ sent = <<EncodeCommand(w, p)>>
                /\ enc = [w |-> w, p |-> p]
    /\ stream = wire
    /\ inbuf = <<>>
    /\ buffer = <<>>
    /\ rf_pc = "idle"
    /\ rf_result = EmptyResult
    /\ returned = <<>>
    /\ cut = FALSE
    /\ CmdAtRest
    /\ is_connected = TRUE
    /\ LoopAtRest
    /\ ReadAtRest
    /\ ThreadAtRest
    /\ RunAtRest

\* The transport delivers the next k bytes into the serial input buffer
Arrive ==
    /\ Len(wire) > 0
    /\ \E k \in 1..Len(wire) :
          /\ inbuf' = inbuf \o SubSeq(wire, 1, k)
          /\ wire' = From(wire, k)
    /\ UNCHANGED <<channel, buffer, rf_pc, rf_result, returned, sent, stream, enc, cut>>
    /\ UNCHANGED <<cmdVars, loopVars, readVars, threadVars, runVars>>

\* _read_frame is called: buffer = b'', start_time = time.time()
ReadFrameBegin ==
    /\ rf_pc = "idle"
    /\ rf_pc' = "loop"
    /\ buffer' = <<>>
    /\ UNCHANGED <<channel, wire, inbuf, rf_result, returned, sent, stream, enc, cut>>
    /\ UNCHANGED <<cmdVars, loopVars, readVars, threadVars, runVars>>

\* One pass of the timed loop with in_waiting > 0: read everything that is
\* waiting, append it, run the inner loop; return when it yields a frame
\* (the local buffer and what it still holds are dropped with the call).
ReadFrameRead ==
    /\ rf_pc = "loop"
    /\ Len(inbuf) > 0
    /\ LET r == ProcessBuffer(buffer \o inbuf, HeaderOf(channel), FooterOf(channel))
       IN  IF r.found
           THEN /\ rf_pc' = "idle"
                /\ rf_result' = <<r.frame, r.length>>
                /\ returned' = Append(returned, r.frame)
                /\ buffer' = <<>>
           ELSE /\ buffer' = r.buffer
                /\ UNCHANGED <<rf_pc, rf_result, returned>>
    /\ inbuf' = <<>>
    /\ UNCHANGED <<channel, wire, sent, stream, enc, cut>>
    /\ UNCHANGED <<cmdVars, loopVars, readVars, threadVars, runVars>>

\* A mutation of TimeoutResult: the bytes gathered so far are returned
TimeoutResultPartial(buf) == <<buf, Len(buf)>>

\* What _read_frame returns when the timed loop ends: return b'', 0
TimeoutResult(buf) == EmptyResult

\* time.time() - start_time reaches self.timeout: return b'', 0
ReadFrameTimeout ==
    /\ rf_pc = "loop"
    /\ rf_pc' = "idle"
    /\ rf_result' = TimeoutResult(buffer)
    /\ buffer' = <<>>
    /\ cut' = (cut \/ buffer # <<>>)
    /\ UNCHANGED <<channel, wire, inbuf, returned, sent, stream, enc>>
    /\ UNCHANGED <<cmdVars, loopVars, readVars, threadVars, runVars>>

\* The serial port raises in in_waiting or read: except Exception, the
\* error is logged and b'', 0 returned; what was waiting stays in the port
ReadFrameError ==
    /\ rf_pc = "loop"
    /\ rf_pc' = "idle"
    /\ rf_result' = EmptyResult
    /\ buffer' = <<>>
    /\ cut' = TRUE
    /\ UNCHANGED <<channel, wire, inbuf, returned, sent, stream, enc>>
    /\ UNCHANGED <<cmdVars, loopVars, readVars, threadVars, runVars>>

NextFrame ==
    Arrive \/ ReadFrameBegin \/ ReadFrameRead \/ ReadFrameTimeout \/ ReadFrameError

SpecFrame == InitFrame /\ [][NextFrame]_vars

\* Streams of the data channel that hold no whole frame: nothing, garbage,
\* the beginning of a frame that never comes whole
InitFrameData == InitFrame /\ channel = "data" /\ sent = <<>>

\* The clock goes on: the timed loop of a running call meets its timeout
SpecFrameLive == InitFrameData /\ [][NextFrame]_vars /\ WF_vars(ReadFrameTimeout)

\* The other channel of the link
OtherChannel(ch) == IF ch = "data" THEN "cmd" ELSE "data"

\* A frame with the header of one channel and the footer of the other
MixedFrame(ch) == HeaderOf(ch) \o PackH(0) \o FooterOf(OtherChannel(ch))

\* Noise the resynchronization of _read_frame is run on: a bare header, a
\* header with a length field of 5 and one byte, a frame with the footer of
\* the other channel
ResyncPieces(ch) == {HeaderOf(ch), TruncatedFrame(ch), MixedFrame(ch)}

\* Streams of noise pieces, with or without a valid frame behind them
ResyncStreams(ch) ==
    {Concat(ps) \o tail :
        ps \in UNION {[1..n -> ResyncPieces(ch)] : n \in 0..MaxPieces},
        tail \in {<<>>, BuildFrame(ch, <<>>)}}

InitResync ==
    /\ channel = "data"
    /\ wire \in ResyncStreams(channel)
    /\ stream = wire
    /\ sent = <<>>
    /\ enc = NoEnc
    /\ inbuf = <<>>
    /\ buffer = <<>>
    /\ rf_pc = "idle"
    /\ rf_result = EmptyResult
    /\ returned = <<>>
    /\ cut = FALSE
    /\ CmdAtRest
    /\ is_connected = TRUE
    /\ LoopAtRest
    /\ ReadAtRest
    /\ ThreadAtRest
    /\ RunAtRest

\* _read_frame calls over streams built to exercise its resynchronization
SpecResync == InitResync /\ [][NextFrame]_vars

----------------------------------------------------------------------------
\* Claims about _read_frame

IsPrefix(s, t) == Len(s) <= Len(t) /\ s = SubSeq(t, 1, Len(s))

\* Every byte of the stream has been taken by some _read_frame call
AllConsumed == wire = <<>> /\ inbuf = <<>> /\ rf_pc = "idle"

\* C1 (as claimed): successive _read_frame calls return exactly the valid
\* frames of the stream, in stream order: what was returned is always a
\* prefix of the frames sent, and once the whole stream has been consumed
\* (no call having timed out on a partial buffer) every frame was returned.
C1_ExactlyTheFrames ==
    (channel = "data" /\ ~cut) =>
        /\ IsPrefix(returned, sent)
        /\ AllConsumed => returned = sent

\* C2: a frame built by _send_command, fed to _read_frame on the command
\* channel, is returned whole: W at bytes 6..7, P from byte 8, length 2+len(P).
C2_RoundTrip ==
    enc # NoEnc =>
        LET built == EncodeCommand(enc.w, enc.p) IN
        /\ IsPrefix(returned, <<built>>)
        /\ (wire = <<>> /\ inbuf = <<>> /\ ~cut) => returned = <<built>>
        /\ \A i \in 1..Len(returned) :
              /\ UnpackH(Slice(returned[i], 6, 8)) = enc.w
              /\ Slice(returned[i], 8, 8 + Len(enc.p)) = enc.p
              /\ Len(returned[i]) = TotalFrameSize(2 + Len(enc.p))
        /\ rf_result # EmptyResult =>
              /\ rf_result[1] = built
              /\ rf_result[2] = 2 + Len(enc.p)

\* C2 witness: a command with a two-byte word and a payload that itself holds
\* the header bytes arrived in more than one piece and was returned
C2_Witness ==
    /\ enc # NoEnc
    /\ enc.w = 511
    /\ enc.p = FRAME_HEADER
    /\ returned = <<EncodeCommand(enc.w, enc.p)>>
    /\ rf_result[2] = 6

----------------------------------------------------------------------------
\* Command/ACK engine: _send_command, restart, configure

\* struct.pack('<I', v); every natural of the model is below 2^32
PackI(v) == <<v % 256, (v \div 256) % 256, (v \div 65536) % 256,
              (v \div 16777216) % 256>>

\* struct.pack('<HI', h, v)
PackHI(h, v) == PackH(h) \o PackI(v)

\* struct.pack raises struct.error for a number outside the format's range
Packable(v) == v >= 0

\* command_word | 0x0100
ExpectedAck(command_word) ==
    IF (command_word \div 256) % 2 = 1 THEN command_word ELSE command_word + 256

\* A mutation of ResetInputBuffer: the input buffer is left as it is
ResetInputBufferKeeps(buf) == buf

\* self._serial.reset_input_buffer(): what is left of the input buffer
ResetInputBuffer(buf) == <<>>

\* The ACK the device sends for word with a status
AckFrame(word, status) == BuildFrame("cmd", PackH(word) \o PackH(status))

\* What the device may put on the wire after a command frame was written:
\* the ACK of the command, alone or behind a telemetry frame
GoodReplies(command_word) ==
    { AckFrame(ExpectedAck(command_word), 0),
      BuildFrame("data", <<2, 170>>) \o AckFrame(ExpectedAck(command_word), 0) }

\* ... or something else
FaultyReplies(command_word) ==
    { <<>>,                                                 \* silence
      AckFrame(ExpectedAck(command_word), 1),               \* refused
      AckFrame(command_word, 0),                            \* another word
      BuildFrame("cmd", PackH(ExpectedAck(command_word))) } \* no status field

DeviceReplies(command_word, may_fail) ==
    GoodReplies(command_word)
        \cup (IF may_fail THEN FaultyReplies(command_word) ELSE {})

\* _read_frame(FRAME_HEADER, FRAME_FOOTER, False) on what arrives before the
\* timeout: the frame and its length, or (b'', 0)
ReadResponse(bytes) ==
    LET r == ProcessBuffer(bytes, FRAME_HEADER, FRAME_FOOTER)
    IN  IF r.found THEN <<r.frame, r.length>> ELSE EmptyResult

\* struct.unpack('<H', b) raises struct.error unless b holds 2 bytes
UnpackRaises(b) == Len(b) # 2

\* A mutation of AckMismatch: the ACK word is not compared
AckMismatchNever(response_frame, command_word) == FALSE

\* ack_cmd != expected_ack
AckMismatch(response_frame, command_word) ==
    UnpackH(Slice(response_frame, 6, 8)) # ExpectedAck(command_word)

\* Lines 518-546 on one response: "success", "failure", or "desync" when an
\* unpack raised "unpack requires a buffer of 2 bytes"
Verdict(command_word, response_frame) ==
    IF UnpackRaises(Slice(response_frame, 6, 8)) THEN "desync"
    ELSE IF AckMismatch(response_frame, command_word) THEN "failure"
    ELSE IF UnpackRaises(Slice(response_frame, 8, 10)) THEN "desync"
    ELSE IF UnpackH(Slice(response_frame, 8, 10)) = 0 THEN "success"
    ELSE "failure"

\* Whether a desync leads to restart-and-retry
RetryAllowed(retry_attempted) == ~retry_attempted

Activation(word, data) ==
    [word |-> word, data |-> data, retry_attempted |-> FALSE, attempts |-> 0,
     cleared |-> FALSE, discarded |-> FALSE]

Top == stack[Len(stack)]

\* The log entry of the outermost call gets its result when the call ends
Logged(log, stk, out) ==
    IF stk = <<>> THEN [log EXCEPT ![Len(log)].result = out.result] ELSE log

\* An outermost _send_command begins (called by configure or restart)
BeginCall(log, word, data, pc) ==
    /\ calls' = Append(log, [word |-> word,
                              result |-> IF is_connected THEN "pending" ELSE "failure"])
    /\ cfg_pc' = pc
    /\ exchanges' = 0
    /\ restarts' = 0
    /\ last_response' = EmptyResult
    /\ IF is_connected
       THEN /\ stack' = <<Activation(word, data)>>
            /\ outcome' = [NoOutcome EXCEPT !.word = word]
       ELSE \* lines 479-481
            /\ stack' = <<>>
            /\ outcome' = [NoOutcome EXCEPT !.word = word, !.result = "failure"]

\* The innermost activation returns v: to the caller's handler, which sleeps
\* and retries (the value of restart() is ignored), or to the outside
Return(f, v, write_error) ==
    IF Len(stack) > 1
    THEN /\ stack' = SubSeq(stack, 1, Len(stack) - 1)
         /\ UNCHANGED outcome
    ELSE /\ stack' = <<>>
         /\ outcome' = [outcome EXCEPT !.result = v, !.attempts = f.attempts,
                                       !.write_error = write_error]

\* The innermost activation builds its frame and clears the input buffer
\* (lines 486-508 of a pass of the while True loop)
SendClear ==
    /\ stack # <<>>
    /\ ~Top.cleared
    /\ inbuf' = ResetInputBuffer(inbuf)
    /\ stack' = [stack EXCEPT ![Len(stack)].cleared = TRUE,
                              ![Len(stack)].discarded = (inbuf # <<>>)]
    /\ UNCHANGED <<is_connected, exchanges, restarts, last_response, outcome,
                   cfg_pc, cfg_args, gate, calls, writes, cfg_result, faults>>
    /\ UNCHANGED <<frameRest, loopVars, readVars, threadVars, runVars>>

\* self._serial.write raises: except Exception, return False
SendWriteError ==
    /\ stack # <<>>
    /\ Top.cleared
    /\ faults < MaxFaults
    /\ faults' = faults + 1
    /\ Return(Top, "failure", TRUE)
    /\ UNCHANGED inbuf
    /\ IF Len(stack) = 1 THEN last_response' = EmptyResult
                         ELSE UNCHANGED last_response
    /\ calls' = Logged(calls, stack', outcome')
    /\ UNCHANGED <<is_connected, exchanges, restarts, cfg_pc, cfg_args, gate,
                   writes, cfg_result>>
    /\ UNCHANGED <<frameRest, loopVars, readVars, threadVars, runVars>>

\* The rest of the pass (lines 511-546): write the frame, read one response
\* from what the input buffer holds by then and what the device replies,
\* decide.
SendAttempt ==
    /\ stack # <<>>
    /\ Top.cleared
    /\ \E reply \in DeviceReplies(Top.word, faults < MaxFaults) :
        LET f == [Top EXCEPT !.attempts = @ + 1, !.cleared = FALSE,
                             !.discarded = FALSE]
            frame == EncodeCommand(f.word, f.data)
            response == ReadResponse(inbuf \o reply)
            verdict == Verdict(f.word, response[1])
            here == Len(stack)
        IN
        /\ writes' = Append(writes, frame)
        /\ faults' = IF reply \in GoodReplies(f.word) THEN faults ELSE faults + 1
        /\ exchanges' = exchanges + 1
        /\ restarts' = IF here > 1 THEN restarts + 1 ELSE restarts
        /\ inbuf' = <<>>
        /\ last_response' = IF here = 1 THEN response ELSE last_response
        /\ IF verdict # "desync"
           THEN Return(f, verdict, FALSE)
           ELSE IF ~RetryAllowed(f.retry_attempted)
           THEN Return(f, "failure", FALSE)
           ELSE IF here < MaxDepth
           THEN \* self.restart(): a nested _send_command(0x00A3)
                /\ stack' = Append(
                       [stack EXCEPT ![here] = [f EXCEPT !.retry_attempted = TRUE]],
                       Activation(CMD_RESTART, <<>>))
                /\ outcome' = IF here = 1
                              THEN [outcome EXCEPT !.first_desync = (f.attempts = 1)]
                              ELSE outcome
           ELSE \* the interpreter's recursion limit: RecursionError, raised in
                \* the handlers, leaves every activation
                /\ stack' = <<>>
                /\ outcome' = [outcome EXCEPT !.result = "raised",
                                 !.attempts = IF here = 1 THEN f.attempts
                                              ELSE stack[1].attempts]
    /\ calls' = Logged(calls, stack', outcome')
    /\ UNCHANGED <<is_connected, cfg_pc, cfg_args, gate, cfg_result>>
    /\ UNCHANGED <<frameRest, loopVars, readVars, threadVars, runVars>>

\* Bytes that arrive while no response is awaited (a late ACK), before the
\* input buffer is cleared or between the clearing and the write
StaleArrive ==
    /\ stack # <<>>
    /\ inbuf = <<>>
    /\ inbuf' = AckFrame(ExpectedAck(stack[1].word), 0)
    /\ UNCHANGED cmdVars
    /\ UNCHANGED <<frameRest, loopVars, readVars, threadVars, runVars>>

\* ---- configure ----------------------------------------------------------

\* configure's defaults: max_motion_gate = 8, max_static_gate = 8,
\* no_one_duration = 5
DistanceData == PackHI(0, 8) \o PackHI(1, 8) \o PackHI(2, 5)

\* range(min(len(motion_sensitivity), len(static_sensitivity))), entered only
\* when both lists are given and non-empty
GateCount(args) ==
    IF args.motion_sensitivity # <<>> /\ args.static_sensitivity # <<>>
    THEN Min(Len(args.motion_sensitivity), Len(args.static_sensitivity))
    ELSE 0

SensitivityPackable(args, g) ==
    /\ Packable(args.motion_sensitivity[g + 1])
    /\ Packable(args.static_sensitivity[g + 1])

\* A mutation of SensitivityData: the gates are numbered from the last one down
SensitivityDataDescending(args, g) ==
    PackHI(0, GateCount(args) - 1 - g)
        \o PackHI(1, args.motion_sensitivity[g + 1])
        \o PackHI(2, args.static_sensitivity[g + 1])

SensitivityData(args, g) ==
    PackHI(0, g) \o PackHI(1, args.motion_sensitivity[g + 1])
                 \o PackHI(2, args.static_sensitivity[g + 1])

\* configure calls _send_command(word, data) and waits at position pc
CallNext(word, data, pc, g) ==
    /\ BeginCall(calls, word, data, pc)
    /\ gate' = g
    /\ UNCHANGED <<is_connected, cfg_args, writes, cfg_result, inbuf, faults>>

\* configure (or restart) returns r
Finish(r) ==
    /\ cfg_pc' = "done"
    /\ cfg_result' = r
    /\ UNCHANGED <<is_connected, stack, exchanges, restarts, last_response,
                   outcome, cfg_args, gate, calls, writes, inbuf, faults>>

\* except Exception: try to end configuration mode, then return False
ToHandler == CallNext(CMD_END_CONFIG, <<>>, "end_exc", gate)

\* A mutation of AfterDistanceFailed: return False at once
AfterDistanceFailedNoEnd == Finish("failure")

\* What configure does when the set-distance exchange failed
AfterDistanceFailed == CallNext(CMD_END_CONFIG, <<>>, "end_fail", gate)

\* A mutation of EndResult: the result of the exchange is not looked at
EndResultAlways(v) == "success"

\* What configure returns after the closing end-configuration exchange
\* returned v
EndResult(v) == IF v = "success" THEN "success" ELSE "failure"

\* The sensitivity loop from gate g on, then the end of configuration mode
ToGateOrEnd(g) ==
    IF g < GateCount(cfg_args)
    THEN IF SensitivityPackable(cfg_args, g)
         THEN CallNext(CMD_SET_SENSITIVITY, SensitivityData(cfg_args, g), "gate", g)
         ELSE ToHandler
    ELSE CallNext(CMD_END_CONFIG, <<>>, "end", g)

Returned(pc) == cfg_pc = pc /\ stack = <<>>

ConfigureBegin ==
    /\ cfg_pc = "idle"
    /\ \E args \in ConfigureArgs : cfg_args' = args
    /\ writes' = <<>>
    /\ faults' = 0
    /\ gate' = 0
    /\ IF ~is_connected
       THEN /\ cfg_pc' = "done"
            /\ cfg_result' = "failure"
            /\ calls' = <<>>
            /\ UNCHANGED <<stack, exchanges, restarts, last_response, outcome>>
       ELSE /\ BeginCall(<<>>, CMD_ENABLE_CONFIG, PackH(1), "enable")
            /\ cfg_result' = "none"
    /\ UNCHANGED <<is_connected, inbuf>>
    /\ UNCHANGED <<frameRest, loopVars, readVars, threadVars, runVars>>

AfterEnable ==
    /\ Returned("enable")
    /\ CASE outcome.result = "success" ->
                CallNext(CMD_SET_DISTANCE_PARAMS, DistanceData, "distance", gate)
         [] outcome.result = "failure" -> Finish("failure")
         [] OTHER -> ToHandler
    /\ UNCHANGED <<frameRest, loopVars, readVars, threadVars, runVars>>

AfterDistance ==
    /\ Returned("distance")
    /\ CASE outcome.result = "success" -> ToGateOrEnd(0)
         [] outcome.result = "failure" -> AfterDistanceFailed
         [] OTHER -> ToHandler
    /\ UNCHANGED <<frameRest, loopVars, readVars, threadVars, runVars>>

AfterGate ==
    /\ Returned("gate")
    /\ IF outcome.result = "raised"
       THEN ToHandler
       ELSE ToGateOrEnd(gate + 1)   \* a failure is logged as a warning only
    /\ UNCHANGED <<frameRest, loopVars, readVars, threadVars, runVars>>

AfterEnd ==
    /\ Returned("end")
    /\ IF outcome.result = "raised"
       THEN ToHandler
       ELSE Finish(EndResult(outcome.result))
    /\ UNCHANGED <<frameRest, loopVars, readVars, threadVars, runVars>>

AfterEndFail ==
    /\ Returned("end_fail")
    /\ IF outcome.result = "raised" THEN ToHandler ELSE Finish("failure")
    /\ UNCHANGED <<frameRest, loopVars, readVars, threadVars, runVars>>

\* the handler's own try: ... except: pass
AfterEndExc ==
    /\ Returned("end_exc")
    /\ Finish("failure")
    /\ UNCHANGED <<frameRest, loopVars, readVars, threadVars, runVars>>

\* restart(): logs when not connected, then return self._send_command(0x00A3)
RestartBegin ==
    /\ cfg_pc = "idle"
    /\ BeginCall(<<>>, CMD_RESTART, <<>>, "restart")
    /\ writes' = <<>>
    /\ cfg_args' = NoArgs
    /\ faults' = 0
    /\ gate' = 0
    /\ cfg_result' = "none"
    /\ UNCHANGED <<is_connected, inbuf>>
    /\ UNCHANGED <<frameRest, loopVars, readVars, threadVars, runVars>>

AfterRestart ==
    /\ Returned("restart")
    /\ Finish(outcome.result)
    /\ UNCHANGED <<frameRest, loopVars, readVars, threadVars, runVars>>

\* The caller of configure / restart goes on
CallerContinues ==
    /\ cfg_pc = "done"
    /\ cfg_pc' = "idle"
    /\ UNCHANGED <<is_connected, stack, exchanges, restarts, last_response,
                   outcome, cfg_args, gate, calls, writes, cfg_result, inbuf,
                   faults>>
    /\ UNCHANGED <<frameRest, loopVars, readVars, threadVars, runVars>>

InitCmd ==
    /\ FrameAtRest
    /\ CmdAtRest
    /\ is_connected \in BOOLEAN
    /\ LoopAtRest
    /\ ReadAtRest
    /\ ThreadAtRest
    /\ RunAtRest

NextCmd ==
    \/ ConfigureBegin \/ AfterEnable \/ AfterDistance \/ AfterGate
    \/ AfterEnd \/ AfterEndFail \/ AfterEndExc
    \/ RestartBegin \/ AfterRestart \/ CallerContinues
    \/ SendClear \/ SendAttempt \/ SendWriteError \/ StaleArrive

SpecCmd == InitCmd /\ [][NextCmd]_vars

----------------------------------------------------------------------------
\* SpecLoop: the control loop of run() against the reader thread

\* The time up to which the run is followed
Horizon == IF observed THEN MaxObservedTime ELSE MaxTime

\* The reader thread decodes a data frame and replaces _last_data
ReaderPublish ==
    /\ now <= ReadingsUntil
    /\ \E status \in 0..3 :
          /\ status # target_status
          /\ target_status' = status
          /\ last_data' = BasicReading(status)
          /\ presence_detected' = PresenceOf(status)
          /\ presence_since' = IF ~observed \/ ~PresenceOf(status) THEN NoTime
                                ELSE IF presence_detected THEN presence_since
                                ELSE now
          /\ moving_decoded' = IF observed /\ IsMoving(status)
                                THEN Min(moving_decoded + 1, MaxLog)
                                ELSE moving_decoded
    /\ UNCHANGED <<now, dynamic_detection_history, dynamic_detection_active_until,
                   last_presence_time, tick_pc, current_time,
                   dynamic_detection_active, static_detected,
                   robust_presence_detected, tick_raised, called, playing,
                   relay_connected, relay_on, motion_log, plays, static_log, observed>>
    /\ UNCHANGED <<read_result, prev_data, read_frame, thread_lock, reader_pc,
                   accessor, accessor_value>>
    /\ UNCHANGED <<frameVars, cmdVars, threadVars, runVars>>

\* time.sleep(self.check_interval), and the time the tick itself took
Sleep ==
    /\ tick_pc = "sleep"
    /\ \E dt \in 1..(IF now <= ReadingsUntil THEN MaxStep ELSE CHECK_INTERVAL) :
          /\ now + dt <= Horizon
          /\ now' = now + dt
    /\ tick_pc' = "due"
    /\ UNCHANGED <<target_status, dynamic_detection_history,
                   dynamic_detection_active_until, last_presence_time,
                   current_time, dynamic_detection_active, static_detected,
                   robust_presence_detected, tick_raised, called, playing,
                   relay_connected, relay_on, motion_log, plays, static_log,
                   presence_detected, presence_since, observed,
                   moving_decoded>>
    /\ UNCHANGED <<frameVars, cmdVars, readVars, threadVars, runVars>>

\* _check_presence_and_update, lines 161-190: the dynamic evidence
TickDynamic ==
    /\ tick_pc = "due"
    /\ LET dynamic_detected == IsMoving(target_status)
           appended == IF dynamic_detected
                       THEN Append(dynamic_detection_history, now)
                       ELSE dynamic_detection_history
           history == Prune(appended, now)
       IN
       /\ current_time' = now
       /\ dynamic_detection_history' = history
       /\ IF ContinuousDetection(history)
          THEN /\ dynamic_detection_active' = TRUE
               /\ dynamic_detection_active_until' = now + DYNAMIC_DETECTION_DURATION
          ELSE /\ dynamic_detection_active' =
                      StillActive(dynamic_detection_active_until, now)
               /\ UNCHANGED dynamic_detection_active_until
       /\ motion_log' = IF dynamic_detected /\ Len(motion_log) < MaxLog
                        THEN Append(motion_log, now)
                        ELSE motion_log
    /\ tick_pc' = "static"
    /\ called' = {}
    /\ tick_raised' = FALSE
    /\ UNCHANGED <<now, target_status, last_presence_time, static_detected,
                   robust_presence_detected, playing, relay_connected, relay_on,
                   plays, static_log, presence_detected, presence_since, observed,
                   moving_decoded>>
    /\ UNCHANGED <<frameVars, cmdVars, readVars, threadVars, runVars>>

\* A mutation of StopsMusic: the music is left playing
StopsMusicNever(is_playing) == FALSE

\* if self.audio_player.is_playing(): self.audio_player.stop()
StopsMusic(is_playing) == is_playing

\* What audio_player.play() may leave is_playing() at: playing, or not (no
\* track found, the mixer refused)
PlayOutcomes == BOOLEAN

\* _check_presence_and_update, lines 192-251: the static evidence, the robust
\* presence and the commands to the relay and the audio player
TickStatic ==
    /\ tick_pc = "static"
    /\ LET static == IsStatic(target_status)
           robust == Robust(dynamic_detection_active, static)
           relay_timeout_is_complete ==
               RelayTimeoutIsComplete(last_presence_time, current_time)
       IN
       /\ static_detected' = static
       /\ robust_presence_detected' = robust
       /\ last_presence_time' = IF robust THEN current_time ELSE last_presence_time
       /\ static_log' = IF observed /\ static /\ Len(static_log) < MaxLog
                        THEN Append(static_log, current_time)
                        ELSE static_log
       /\ IF robust
          THEN LET step == RelayOnStep(relay_connected, relay_on) IN
               IF step = "raise"
               THEN \* AttributeError at line 215, caught at line 250
                    /\ tick_raised' = TRUE
                    /\ UNCHANGED <<called, playing, relay_on, plays>>
               ELSE /\ relay_on' = (relay_on \/ step = "on")
                    /\ IF playing
                       THEN /\ called' = (IF step = "on" THEN {"turn_on"} ELSE {})
                            /\ UNCHANGED <<playing, plays>>
                       ELSE \E play_ok \in PlayOutcomes :
                            /\ playing' = play_ok
                            /\ plays' = IF observed THEN plays + 1 ELSE plays
                            /\ called' = (IF step = "on" THEN {"turn_on"} ELSE {})
                                            \cup {"play"}
                    /\ UNCHANGED tick_raised
          ELSE LET step == RelayOffStep(relay_connected, relay_on,
                                        relay_timeout_is_complete)
                   stops == IF StopsMusic(playing) THEN {"stop"} ELSE {}
               IN
               /\ playing' = (playing /\ ~StopsMusic(playing))
               /\ UNCHANGED plays
               /\ IF step = "raise"
                  THEN \* AttributeError at line 246, after the stop
                       /\ tick_raised' = TRUE
                       /\ called' = stops
                       /\ UNCHANGED relay_on
                  ELSE /\ relay_on' = (relay_on /\ step # "off")
                       /\ called' = stops \cup (IF step = "off" THEN {"turn_off"} ELSE {})
                       /\ UNCHANGED tick_raised
    /\ tick_pc' = "sleep"
    /\ UNCHANGED <<now, target_status, dynamic_detection_history,
                   dynamic_detection_active_until, current_time,
                   dynamic_detection_active, relay_connected, motion_log,
                   presence_detected, presence_since, observed,
                   moving_decoded>>
    /\ UNCHANGED <<frameVars, cmdVars, readVars, threadVars, runVars>>

\* The system after initialize(): the sensor is connected and its reader
\* thread runs, the relay is connected or not and its channel is as it was
\* left, the audio player is initialized and silent
LoopStart ==
    /\ FrameAtRest
    /\ CmdAtRest
    /\ is_connected = TRUE
    /\ now = 0
    /\ target_status \in 0..3
    /\ dynamic_detection_history = <<>>
    /\ dynamic_detection_active_until = NoTime
    /\ last_presence_time = NoTime
    /\ tick_pc = "due"
    /\ current_time = 0
    /\ dynamic_detection_active = FALSE
    /\ static_detected = FALSE
    /\ robust_presence_detected = FALSE
    /\ tick_raised = FALSE
    /\ called = {}
    /\ playing = FALSE
    /\ relay_connected \in BOOLEAN
    /\ relay_on \in (IF relay_connected THEN BOOLEAN ELSE {FALSE})
    /\ motion_log = <<>>
    /\ plays = 0
    /\ static_log = <<>>
    /\ presence_detected = PresenceOf(target_status)
    /\ presence_since = IF observed /\ PresenceOf(target_status) THEN 0 ELSE NoTime
    /\ moving_decoded = IF observed /\ IsMoving(target_status) THEN 1 ELSE 0
    /\ last_data = BasicReading(target_status)
    /\ read_result = EmptyDict
    /\ prev_data = EmptyDict
    /\ read_frame = EmptyResult
    /\ thread_lock = "free"
    /\ reader_pc = "read_data"
    /\ accessor = "none"
    /\ accessor_value = 0
    /\ ThreadAtRest
    /\ RunAtRest

InitLoop == observed = FALSE /\ LoopStart

InitPlayback == observed = TRUE /\ LoopStart

NextLoop == ReaderPublish \/ Sleep \/ TickDynamic \/ TickStatic

SpecLoop == InitLoop /\ [][NextLoop]_vars

\* The same loop, followed for a short time with every observation kept
SpecPlayback == InitPlayback /\ [][NextLoop]_vars

----------------------------------------------------------------------------
\* read_data and the reader thread (SpecRead)

\* Payloads of the data frames the reader is given.  After the type and
\* the marker a basic report carries at least 10 bytes.
ReaderPayloads ==
    {BasicPayload(st) : st \in 0..3}
    \cup {Slice(BasicPayload(2), 0, 12),       \* exactly 10 bytes of target data
          Slice(BasicPayload(3), 0, 11),       \* 9 bytes of target data
          <<2, 170, 1>>,                       \* 1 byte of target data
          <<2, 170>>,                          \* no target data
          <<>>,
          <<2, 171, 3, 30, 0, 40, 50, 0, 60, 70, 0, 85, 0>>,   \* marker 0xAB
          <<2, 0, 1>>,
          <<1, 170, 3>>,                       \* engineering report, cut short
          <<1, 170, 1, 30, 0, 40, 50, 0, 60, 70, 0, 8, 8, 85, 0>>,
          <<5, 170, 2, 30, 0, 40, 50, 0, 60, 70, 0, 85, 0>>}   \* unknown type

\* What arrives on the serial port during one read_data call: nothing, noise,
\* a frame, or a frame behind noise
ReaderStreams ==
    {<<>>, <<0>>, TruncatedFrame("data")}
    \cup {BuildFrame("data", pl) : pl \in ReaderPayloads}
    \cup {<<0>> \o BuildFrame("data", pl) : pl \in ReaderPayloads}

\* What _read_frame returns when these bytes arrive before its timeout:
\* the first frame its inner loop finds, or (b'', 0) when the timeout passes
ReadFrameOf(bytes) ==
    LET r == ProcessBuffer(bytes, DATA_FRAME_HEADER, DATA_FRAME_FOOTER)
    IN  IF r.found THEN <<r.frame, r.length>> ELSE EmptyResult

\* A mutation of ReadData: whatever was parsed becomes the last reading
ReadDataOverwrite(last, frame, data_length) ==
    LET parsed_data == ParseDataFrame(frame, data_length)
    IN  [last_data |-> parsed_data, result |-> parsed_data]

\* read_data on a connected sensor: the new _last_data and the value returned
ReadData(last, frame, data_length) ==
    LET parsed_data == ParseDataFrame(frame, data_length)
    IN  IF Truthy(parsed_data)
        THEN [last_data |-> parsed_data, result |-> parsed_data]
        ELSE [last_data |-> last,
              result |-> IF Truthy(last) THEN last ELSE EmptyDict]

\* One pass of _read_thread_func: read_data, then _presence_detected
ReaderPass ==
    /\ is_connected
    /\ \E bytes \in ReaderStreams :
          LET rf == ReadFrameOf(bytes)
              rd == ReadData(last_data, rf[1], rf[2])
          IN  /\ read_frame' = rf
              /\ prev_data' = last_data
              /\ last_data' = rd.last_data
              /\ read_result' = rd.result
              /\ target_status' = StatusOf(rd.last_data)
              /\ presence_detected' = (Get(rd.result, "presence", 0) = 1)
    /\ UNCHANGED <<now, dynamic_detection_history, dynamic_detection_active_until,
                   last_presence_time, tick_pc, current_time,
                   dynamic_detection_active, static_detected,
                   robust_presence_detected, tick_raised, called, playing,
                   relay_connected, relay_on, motion_log, plays, static_log,
                   presence_since, observed,
                   moving_decoded>>
    /\ UNCHANGED <<thread_lock, reader_pc, accessor, accessor_value>>
    /\ UNCHANGED <<frameVars, cmdVars, threadVars, runVars>>

InitRead ==
    /\ FrameAtRest
    /\ CmdAtRest
    /\ is_connected = TRUE
    /\ LoopAtRest
    /\ ReadAtRest
    /\ ThreadAtRest
    /\ RunAtRest

NextRead == ReaderPass

SpecRead == InitRead /\ [][NextRead]_vars

----------------------------------------------------------------------------
\* SpecLock: the reader thread and the accessors around _thread_lock

\* The reader's data = self.read_data() (line 135): _last_data is replaced at
\* line 173, before the reader comes to its "with self._thread_lock"
ReaderReadData ==
    /\ is_connected
    /\ reader_pc = "read_data"
    /\ \E bytes \in ReaderStreams :
          LET rf == ReadFrameOf(bytes)
              rd == ReadData(last_data, rf[1], rf[2])
          IN  /\ read_frame' = rf
              /\ prev_data' = last_data
              /\ last_data' = rd.last_data
              /\ read_result' = rd.result
              /\ target_status' = StatusOf(rd.last_data)
    /\ reader_pc' = "acquire"
    /\ UNCHANGED <<now, dynamic_detection_history, dynamic_detection_active_until,
                   last_presence_time, tick_pc, current_time,
                   dynamic_detection_active, static_detected,
                   robust_presence_detected, tick_raised, called, playing,
                   relay_connected, relay_on, motion_log, plays, static_log,
                   presence_detected, presence_since, observed, moving_decoded>>
    /\ UNCHANGED <<thread_lock, accessor, accessor_value>>
    /\ UNCHANGED <<frameVars, cmdVars, threadVars, runVars>>

\* with self._thread_lock: (line 138) is entered when the lock is free
ReaderAcquire ==
    /\ reader_pc = "acquire"
    /\ thread_lock = "free"
    /\ thread_lock' = "reader"
    /\ reader_pc' = "publish"
    /\ UNCHANGED <<last_data, read_result, prev_data, read_frame, accessor,
                   accessor_value>>
    /\ UNCHANGED <<frameVars, cmdVars, loopVars, threadVars, runVars>>

\* self._presence_detected = bool(data.get('presence', False)), the lock is
\* released, and after the sleep the next pass begins
ReaderSetPresence ==
    /\ reader_pc = "publish"
    /\ presence_detected' = (Get(read_result, "presence", 0) = 1)
    /\ thread_lock' = "free"
    /\ reader_pc' = "read_data"
    /\ UNCHANGED <<now, target_status, dynamic_detection_history,
                   dynamic_detection_active_until, last_presence_time, tick_pc,
                   current_time, dynamic_detection_active, static_detected,
                   robust_presence_detected, tick_raised, called, playing,
                   relay_connected, relay_on, motion_log, plays, static_log,
                   presence_since, observed, moving_decoded>>
    /\ UNCHANGED <<last_data, read_result, prev_data, read_frame, accessor,
                   accessor_value>>
    /\ UNCHANGED <<frameVars, cmdVars, threadVars, runVars>>

\* The accessors that read _last_data inside "with self._thread_lock"
Accessors == {"is_static_target_detected", "is_moving_target_detected",
              "get_static_energy", "get_move_energy"}

\* What an accessor returns for the reading it finds (booleans as 0 and 1)
AccessorValue(name, data) ==
    CASE name = "is_static_target_detected" ->
             IF IsStatic(Get(data, "target_status", 0)) THEN 1 ELSE 0
      [] name = "is_moving_target_detected" ->
             IF IsMoving(Get(data, "target_status", 0)) THEN 1 ELSE 0
      [] name = "get_static_energy" -> Get(data, "static_energy", 0)
      [] OTHER -> Get(data, "move_energy", 0)

\* The main thread calls an accessor and enters its with block
AccessorEnter ==
    /\ accessor = "none"
    /\ thread_lock = "free"
    /\ thread_lock' = "main"
    /\ \E name \in Accessors : accessor' = name
    /\ UNCHANGED <<last_data, read_result, prev_data, read_frame, reader_pc,
                   accessor_value>>
    /\ UNCHANGED <<frameVars, cmdVars, loopVars, threadVars, runVars>>

\* The accessor reads _last_data, leaves the with block and returns
AccessorReturn ==
    /\ accessor # "none"
    /\ accessor_value' = AccessorValue(accessor, last_data)
    /\ thread_lock' = "free"
    /\ accessor' = "none"
    /\ UNCHANGED <<last_data, read_result, prev_data, read_frame, reader_pc>>
    /\ UNCHANGED <<frameVars, cmdVars, loopVars, threadVars, runVars>>

NextLock ==
    \/ ReaderReadData \/ ReaderAcquire \/ ReaderSetPresence
    \/ AccessorEnter \/ AccessorReturn

SpecLock == InitRead /\ [][NextLock]_vars

----------------------------------------------------------------------------
\* The reader thread and the thread that calls connect, start_reading,
\* configure / restart and disconnect (SpecThread).  Time is counted in
\* half seconds; a step that does not wait is taken before time goes on.

\* The read timeouts a sensor is constructed with: the default, and 3.0 s
LongTimeout == 6

ReadTimeouts == {DEFAULT_TIMEOUT, LongTimeout}

\* threading.Thread.is_alive()
IsAlive(t) == threads[t].pc \notin {"unborn", "exited"}

\* connect(): the port is opened
Connect ==
    /\ main_pc = "idle"
    /\ ~is_connected
    /\ is_connected' = TRUE
    /\ UNCHANGED <<timeout, thread_running, read_thread, threads, main_pc,
                   join_left, since_stop>>
    /\ UNCHANGED <<frameVars, cmdRest, loopVars, readVars, runVars>>

\* start_reading(): returns at once when a thread is recorded and the flag
\* is set; else sets the flag and starts a new thread
StartReading ==
    /\ main_pc = "idle"
    /\ ~(read_thread # NoThread /\ thread_running)
    /\ \E t \in Threads :
          /\ threads[t].pc = "unborn"
          /\ \A u \in Threads : u < t => threads[u].pc # "unborn"
          /\ threads' = [threads EXCEPT ![t].pc = "check"]
          /\ read_thread' = t
    /\ thread_running' = TRUE
    /\ since_stop' = 0
    /\ UNCHANGED <<timeout, main_pc, join_left>>
    /\ UNCHANGED <<frameVars, cmdVars, loopVars, readVars, runVars>>

\* configure() or restart() on a connected sensor enters _send_command:
\* reset_input_buffer, write, _read_frame for the ACK
CommandBegin ==
    /\ main_pc = "idle"
    /\ is_connected
    /\ main_pc' = "exchange"
    /\ UNCHANGED <<timeout, thread_running, read_thread, threads, join_left,
                   since_stop>>
    /\ UNCHANGED <<frameVars, cmdVars, loopVars, readVars, runVars>>

\* the exchange is over: the ACK has come, or its _read_frame gave up
CommandEnd ==
    /\ main_pc = "exchange"
    /\ main_pc' = "idle"
    /\ UNCHANGED <<timeout, thread_running, read_thread, threads, join_left,
                   since_stop>>
    /\ UNCHANGED <<frameVars, cmdVars, loopVars, readVars, runVars>>

\* join(timeout=2.0) returns when the thread has ended or the time is up
JoinEnds(alive, left) == ~alive \/ left = 0

\* disconnect(): _stop_read_thread up to its join, and the rest of
\* disconnect when there is nothing to join
DisconnectBegin ==
    /\ main_pc = "idle"
    /\ is_connected \/ (read_thread # NoThread /\ thread_running)
    /\ IF read_thread = NoThread \/ ~thread_running
       THEN /\ is_connected' = FALSE
            /\ UNCHANGED <<thread_running, read_thread, main_pc, join_left,
                           since_stop>>
       ELSE /\ thread_running' = FALSE
            /\ since_stop' = 0
            /\ IF IsAlive(read_thread)
               THEN /\ main_pc' = "join"
                    /\ join_left' = JOIN_TIMEOUT
                    /\ UNCHANGED <<read_thread, is_connected>>
               ELSE /\ read_thread' = NoThread
                    /\ is_connected' = FALSE
                    /\ UNCHANGED <<main_pc, join_left>>
    /\ UNCHANGED <<timeout, threads>>
    /\ UNCHANGED <<frameVars, cmdRest, loopVars, readVars, runVars>>

\* the join returns: _read_thread = None, then disconnect closes the port
DisconnectFinish ==
    /\ main_pc = "join"
    /\ JoinEnds(IsAlive(read_thread), join_left)
    /\ read_thread' = NoThread
    /\ is_connected' = FALSE
    /\ main_pc' = "idle"
    /\ join_left' = 0
    /\ UNCHANGED <<timeout, thread_running, threads, since_stop>>
    /\ UNCHANGED <<frameVars, cmdRest, loopVars, readVars, runVars>>

\* A mutation of LoopGoesOn: the flag is not looked at
LoopGoesOnWhileConnected(running, connected) == connected

\* "while self._thread_running and self.is_connected()"
LoopGoesOn(running, connected) == running /\ connected

\* the reader evaluates its while condition and enters read_data, or returns
ReaderCheckOf(t) ==
    /\ threads[t].pc = "check"
    /\ threads' = [threads EXCEPT
          ![t].pc = IF LoopGoesOn(thread_running, is_connected)
                    THEN "read" ELSE "exited",
          ![t].left = IF LoopGoesOn(thread_running, is_connected)
                      THEN timeout ELSE 0]
    /\ UNCHANGED <<timeout, thread_running, read_thread, main_pc, join_left,
                   since_stop>>
    /\ UNCHANGED <<frameVars, cmdVars, loopVars, readVars, runVars>>

\* A mutation of AfterCycle: an exception ends the thread
AfterCycleStopOnError(how) == IF how = "exception" THEN "exited" ELSE "sleep"

\* where the reader goes when its read_data call has ended: the try/except
\* of the loop body is followed by time.sleep(0.1) in every case
AfterCycle(how) == "sleep"

\* read_data ends: with a frame, with an exception of the transport, or (when
\* the timeout of _read_frame is met) with an empty result
ReaderReadEndOf(t) ==
    /\ threads[t].pc = "read"
    /\ \E how \in {"frame", "exception"}
                  \cup (IF threads[t].left = 0 THEN {"empty"} ELSE {}) :
          threads' = [threads EXCEPT ![t] =
                        [pc |-> AfterCycle(how),
                         left |-> IF AfterCycle(how) = "sleep"
                                  THEN READER_SLEEP ELSE 0,
                         last |-> how]]
    /\ UNCHANGED <<timeout, thread_running, read_thread, main_pc, join_left,
                   since_stop>>
    /\ UNCHANGED <<frameVars, cmdVars, loopVars, readVars, runVars>>

\* time.sleep(0.1) is over: back to the while condition
ReaderWakeOf(t) ==
    /\ threads[t].pc = "sleep"
    /\ threads' = [threads EXCEPT ![t].pc = "check", ![t].left = 0]
    /\ UNCHANGED <<timeout, thread_running, read_thread, main_pc, join_left,
                   since_stop>>
    /\ UNCHANGED <<frameVars, cmdVars, loopVars, readVars, runVars>>

ReaderCheck == \E t \in Threads : ReaderCheckOf(t)

ReaderReadEnd == \E t \in Threads : ReaderReadEndOf(t)

ReaderWake == \E t \in Threads : ReaderWakeOf(t)

\* nobody can take a step without waiting
AllWaiting ==
    /\ \A t \in Threads :
          /\ threads[t].pc # "check"
          /\ threads[t].pc \in {"read", "sleep"} => threads[t].left > 0
    /\ main_pc = "join" => ~JoinEnds(IsAlive(read_thread), join_left)

SomeoneWaits ==
    \/ main_pc = "join"
    \/ \E t \in Threads : threads[t].pc \in {"read", "sleep"}

\* half a second passes
TimePasses ==
    /\ AllWaiting
    /\ SomeoneWaits
    /\ threads' = [t \in Threads |->
                     IF threads[t].pc \in {"read", "sleep"}
                     THEN [threads[t] EXCEPT !.left = @ - 1] ELSE threads[t]]
    /\ join_left' = IF main_pc = "join" THEN join_left - 1 ELSE join_left
    /\ since_stop' = IF thread_running \/ \A t \in Threads : ~IsAlive(t) THEN 0
                     ELSE Min(since_stop + 1, timeout + READER_SLEEP + 1)
    /\ UNCHANGED <<timeout, thread_running, read_thread, main_pc>>
    /\ UNCHANGED <<frameVars, cmdVars, loopVars, readVars, runVars>>

InitThread ==
    /\ FrameAtRest
    /\ CmdAtRest
    /\ is_connected = FALSE
    /\ LoopAtRest
    /\ ReadAtRest
    /\ timeout \in ReadTimeouts
    /\ thread_running = FALSE
    /\ read_thread = NoThread
    /\ threads = [t \in Threads |-> Unborn]
    /\ main_pc = "idle"
    /\ join_left = 0
    /\ since_stop = 0
    /\ RunAtRest

ReaderStepOf(t) == ReaderCheckOf(t) \/ ReaderReadEndOf(t) \/ ReaderWakeOf(t)

NextThread ==
    \/ Connect \/ StartReading \/ CommandBegin \/ CommandEnd
    \/ DisconnectBegin \/ DisconnectFinish
    \/ ReaderCheck \/ ReaderReadEnd \/ ReaderWake \/ TimePasses

SpecThread == InitThread /\ [][NextThread]_vars

\* PresenceSensor(port=...) as CrescendoSystem constructs it: the default
\* read timeout
InitThreadLive == InitThread /\ timeout = DEFAULT_TIMEOUT

\* The reader thread is scheduled and the clock goes on
SpecThreadLive ==
    /\ InitThreadLive
    /\ [][NextThread]_vars
    /\ \A t \in Threads : WF_vars(ReaderStepOf(t))
    /\ WF_vars(TimePasses)
    /\ WF_vars(DisconnectFinish)

----------------------------------------------------------------------------
\* SpecRun: CrescendoSystem.run from initialize to its return

\* the control loop's variables other than those of the relay and the audio
loopRest == <<now, target_status, dynamic_detection_history,
              dynamic_detection_active_until, last_presence_time, tick_pc,
              current_time, dynamic_detection_active, static_detected,
              robust_presence_detected, tick_raised, motion_log, plays,
              static_log, presence_detected, presence_since, observed,
              moving_decoded>>

\* initialize(): self.sensor.connect(); a failure ends initialize and run
RunConnect ==
    /\ run_pc = "connect"
    /\ \E sensor_ok \in BOOLEAN :
          /\ is_connected' = sensor_ok
          /\ run_pc' = IF sensor_ok THEN "configure" ELSE "returned"
    /\ UNCHANGED <<frameVars, cmdRest, loopVars, readVars, threadVars,
                   audio_initialized>>

\* initialize(): configure, whose failure or exception is logged only, then
\* self.sensor.start_reading()
RunConfigure ==
    /\ run_pc = "configure"
    /\ \E t \in Threads :
          /\ threads[t].pc = "unborn"
          /\ \A u \in Threads : u < t => threads[u].pc # "unborn"
          /\ threads' = [threads EXCEPT ![t].pc = "check"]
          /\ read_thread' = t
    /\ thread_running' = TRUE
    /\ since_stop' = 0
    /\ run_pc' = "relay"
    /\ UNCHANGED <<timeout, main_pc, join_left>>
    /\ UNCHANGED <<frameVars, cmdVars, loopVars, readVars, audio_initialized>>

\* initialize(): self.relay.connect(); a failure is a warning
RunRelay ==
    /\ run_pc = "relay"
    /\ \E relay_ok \in BOOLEAN : relay_connected' = relay_ok
    /\ run_pc' = "audio"
    /\ UNCHANGED <<called, playing, relay_on, loopRest>>
    /\ UNCHANGED <<frameVars, cmdVars, readVars, threadVars, audio_initialized>>

\* initialize(): self.audio_player.initialize(); a failure ends initialize
\* with False, and run returns at line 142
RunAudio ==
    /\ run_pc = "audio"
    /\ \E audio_ok \in BOOLEAN :
          /\ audio_initialized' = audio_ok
          /\ run_pc' = IF audio_ok THEN "loop" ELSE "returned"
    /\ UNCHANGED <<frameVars, cmdVars, loopVars, readVars, threadVars>>

\* One pass of the while loop of run: what a tick may leave of the relay
\* and of the audio player (the tick itself is followed in SpecLoop)
RunTick ==
    /\ run_pc = "loop"
    /\ relay_on' \in (IF relay_connected THEN BOOLEAN ELSE {relay_on})
    /\ playing' \in BOOLEAN
    /\ UNCHANGED <<called, relay_connected, loopRest>>
    /\ UNCHANGED <<frameVars, cmdVars, readVars, threadVars, runVars>>

\* KeyboardInterrupt or an exception leaves the loop; finally: shutdown()
\* stops and shuts the audio player, turns off and disconnects the relay
\* if it is connected, and comes to self.sensor.disconnect()
RunInterrupt ==
    /\ run_pc = "loop"
    /\ playing' = FALSE
    /\ audio_initialized' = FALSE
    /\ called' = IF relay_connected THEN {"turn_off"} ELSE {}
    /\ relay_on' = FALSE
    /\ relay_connected' = FALSE
    /\ main_pc' = "idle"
    /\ run_pc' = "disconnect"
    /\ UNCHANGED <<timeout, thread_running, read_thread, threads, join_left,
                   since_stop, loopRest>>
    /\ UNCHANGED <<frameVars, cmdVars, readVars>>

\* self.sensor.disconnect() has returned: shutdown and run return
RunReturn ==
    /\ run_pc = "disconnect"
    /\ main_pc = "idle"
    /\ ~is_connected
    /\ run_pc' = "returned"
    /\ UNCHANGED <<frameVars, cmdVars, loopVars, readVars, threadVars,
                   audio_initialized>>

\* CrescendoSystem(): the sensor has the default read timeout; run() begins
InitRun ==
    /\ FrameAtRest
    /\ CmdAtRest
    /\ is_connected = FALSE
    /\ LoopAtRest
    /\ ReadAtRest
    /\ timeout = DEFAULT_TIMEOUT
    /\ thread_running = FALSE
    /\ read_thread = NoThread
    /\ threads = [t \in Threads |-> Unborn]
    /\ main_pc = "run"
    /\ join_left = 0
    /\ since_stop = 0
    /\ run_pc = "connect"
    /\ audio_initialized = FALSE

NextRun ==
    \/ RunConnect \/ RunConfigure \/ RunRelay \/ RunAudio
    \/ RunTick \/ RunInterrupt \/ DisconnectBegin \/ DisconnectFinish
    \/ RunReturn \/ ReaderCheck \/ ReaderReadEnd \/ ReaderWake \/ TimePasses

SpecRun == InitRun /\ [][NextRun]_vars

----------------------------------------------------------------------------
\* Claims about _send_command and configure

\* The outermost _send_command call has ended (returned or raised)
CallEnded == stack = <<>> /\ outcome.result # "none"

\* The last attempt of the outermost call read a response frame
GotResponse == last_response # EmptyResult

EmbeddedWord == UnpackH(Slice(last_response[1], 6, 8))
StatusField == UnpackH(Slice(last_response[1], 8, 10))

\* C3: a response whose embedded word is not command_word | 0x0100 makes
\* _send_command return failure, whatever the status field holds.
C3_AckMismatchFails ==
    (CallEnded /\ GotResponse /\ EmbeddedWord # ExpectedAck(outcome.word))
        => outcome.result = "failure"

\* C3 witness: a response with another word and status 0 was rejected
C3_Witness ==
    /\ CallEnded
    /\ last_response = <<AckFrame(CMD_ENABLE_CONFIG, 0), 4>>
    /\ outcome.word = CMD_ENABLE_CONFIG
    /\ outcome.result = "failure"

\* C4 (as claimed): _send_command ends with success or failure, and with
\* success exactly when the last attempt read a response whose word is
\* command_word | 0x0100 and whose status is 0; every other case is failure.
C4_SuccessIffAcked ==
    CallEnded =>
        /\ outcome.result \in {"success", "failure"}
        /\ outcome.result = "success" <=>
              (GotResponse /\ EmbeddedWord = ExpectedAck(outcome.word)
                           /\ StatusField = 0)

\* C5 (as claimed): within one _send_command call the command frame is
\* written at most twice, a first unpack failure causes one restart and one
\* retry, and the call then returns.
C5_RetriesOnce ==
    /\ stack # <<>> => stack[1].attempts <= 2
    /\ restarts <= 1
    /\ (CallEnded /\ outcome.first_desync) =>
          (outcome.result \in {"success", "failure"} /\ outcome.attempts = 2)

\* C6 (as claimed): a _send_command call makes at most three frame
\* exchanges: the command, one restart, the retried command.
C6_AtMostThreeExchanges == exchanges <= 3

IsConfigure == calls # <<>> /\ calls[1].word = CMD_ENABLE_CONFIG

EnableSucceeded == IsConfigure /\ calls[1].result = "success"

\* C7: once enable succeeded, configure does not return before an
\* end-configuration command was attempted.
C7_EndConfigAttempted ==
    (cfg_pc = "done" /\ EnableSucceeded)
        => \E i \in 2..Len(calls) : calls[i].word = CMD_END_CONFIG

\* C7 witness: set-distance failed after a successful enable, and configure
\* returned failure after an end-configuration attempt
C7_Witness ==
    /\ cfg_pc = "done"
    /\ cfg_result = "failure"
    /\ Len(calls) = 3
    /\ calls[1] = [word |-> CMD_ENABLE_CONFIG, result |-> "success"]
    /\ calls[2] = [word |-> CMD_SET_DISTANCE_PARAMS, result |-> "failure"]
    /\ calls[3].word = CMD_END_CONFIG

\* C8 (as claimed): configure returns success only if every exchange it
\* made succeeded, the per-gate set-sensitivity exchanges included.
C8_SuccessOnlyIfAllSucceeded ==
    (cfg_pc = "done" /\ IsConfigure /\ cfg_result = "success")
        => \A i \in 1..Len(calls) : calls[i].result = "success"

\* C8 (amended): configure returns success exactly when the enable, the
\* set-distance and the end-configuration exchanges returned success and no
\* step raised; every gate's set-sensitivity exchange was then made, and one
\* that returned failure does not make configure fail.
C8_SuccessIffEnableDistanceEnd ==
    (cfg_pc = "done" /\ IsConfigure) =>
        (cfg_result = "success" <=>
            LET n == GateCount(cfg_args) IN
            /\ Len(calls) = 3 + n
            /\ calls[1] = [word |-> CMD_ENABLE_CONFIG, result |-> "success"]
            /\ calls[2] = [word |-> CMD_SET_DISTANCE_PARAMS, result |-> "success"]
            /\ \A g \in 1..n :
                  /\ calls[2 + g].word = CMD_SET_SENSITIVITY
                  /\ calls[2 + g].result \in {"success", "failure"}
            /\ calls[3 + n] = [word |-> CMD_END_CONFIG, result |-> "success"])

\* C8 witness: configure returned success although a set-sensitivity
\* exchange had failed
C8_Witness ==
    /\ cfg_pc = "done"
    /\ cfg_result = "success"
    /\ \E i \in 1..Len(calls) :
          calls[i] = [word |-> CMD_SET_SENSITIVITY, result |-> "failure"]

\* configure has returned and every _send_command call it made returned True
AllExchangesSucceeded ==
    /\ cfg_pc = "done"
    /\ IsConfigure
    /\ cfg_result = "success"
    /\ \A i \in 1..Len(calls) : calls[i].result = "success"

\* The frames of the claimed sequence for the lists configure was given
ClaimedWrites ==
    LET ms == cfg_args.motion_sensitivity
        ss == cfg_args.static_sensitivity
        n == IF ms = <<>> \/ ss = <<>> THEN 0 ELSE Min(Len(ms), Len(ss))
    IN  <<BuildFrame("cmd", <<255, 0, 1, 0>>),
          BuildFrame("cmd", <<96, 0, 0, 0, 8, 0, 0, 0, 1, 0, 8, 0, 0, 0,
                              2, 0, 5, 0, 0, 0>>)>>
        \o [g \in 1..n |->
              BuildFrame("cmd", <<100, 0, 0, 0, g - 1, 0, 0, 0,
                                  1, 0, ms[g], 0, 0, 0, 2, 0, ss[g], 0, 0, 0>>)]
        \o <<BuildFrame("cmd", <<254, 0>>)>>

\* C30 (as claimed): in a configure call whose exchanges all succeed, the
\* frames written are enable once, set-distance once, set-sensitivity once
\* per gate in ascending order, end-configuration once, and nothing else.
C30_WritesInOrder == AllExchangesSucceeded => writes = ClaimedWrites

\* frames other than restart frames, a frame written again right after
\* itself counted once
RECURSIVE WithoutRetries(_)
WithoutRetries(ws) ==
    IF ws = <<>> THEN <<>>
    ELSE LET rest == WithoutRetries(Tail(ws)) IN
         IF UnpackH(Slice(Head(ws), 6, 8)) = CMD_RESTART THEN rest
         ELSE IF rest # <<>> /\ Head(rest) = Head(ws) THEN rest
         ELSE <<Head(ws)>> \o rest

\* C30 (amended): the frames other than restart frames are written in the
\* claimed order; a command whose first response could not be unpacked is
\* written a second time after the restart frames, before the next command;
\* with no such response the frames written are exactly the claimed ones.
C30_WritesInOrderUpToRetries ==
    AllExchangesSucceeded =>
        /\ WithoutRetries(writes) = ClaimedWrites
        /\ faults = 0 => writes = ClaimedWrites

\* configure set two gates and every exchange succeeded at its first response
C30_Witness ==
    /\ AllExchangesSucceeded
    /\ GateCount(cfg_args) >= 2
    /\ faults = 0
    /\ Len(writes) = 3 + GateCount(cfg_args)

----------------------------------------------------------------------------
\* Claims about the control loop

\* the dynamic part of the tick at time now has run
DynamicDone == tick_pc # "due"

\* the ticks at t = 0, 1 and 2 saw motion, and no other tick has
MotionAtZeroOneTwo == motion_log = <<0, 1, 2>>

\* C9, as the specification states it: after motion at the ticks t = 0, 1, 2
\* and none later, active-until is 302 and is never extended, the dynamic
\* evidence is active at every tick up to t = 302 and inactive after it.
C9_ActiveUntil302 ==
    (MotionAtZeroOneTwo /\ DynamicDone /\ now >= 2) =>
        /\ dynamic_detection_active_until = 302
        /\ dynamic_detection_active <=> now <= 302

\* C9, as the code behaves: after motion at the ticks t = 0, 1, 2 and none
\* later, active-until is 302 after the tick at t = 2; a motion-free tick at
\* t = 3 still finds three entries in the window and raises it to 303; no
\* later tick changes it; the dynamic evidence is active at exactly the ticks
\* strictly before active-until.
C9_ActiveUntil302Or303 ==
    (MotionAtZeroOneTwo /\ DynamicDone /\ now >= 2) =>
        /\ now = 2 => dynamic_detection_active_until = 302
        /\ now = 3 => dynamic_detection_active_until = 303
        /\ dynamic_detection_active_until \in {302, 303}
        /\ dynamic_detection_active <=> now < dynamic_detection_active_until

\* the tick at t = 303 finds the evidence expired at exactly its active-until
C9_Witness ==
    /\ MotionAtZeroOneTwo
    /\ DynamicDone
    /\ now = 303
    /\ dynamic_detection_active_until = 303
    /\ ~dynamic_detection_active

\* C10: a completed tick reports robust presence, and records the time of
\* presence, exactly when the dynamic evidence is active and the static
\* evidence is detected in that tick.
C10_RobustNeedsBoth ==
    tick_pc = "sleep" =>
        /\ robust_presence_detected <=> (dynamic_detection_active /\ static_detected)
        /\ last_presence_time = now <=> (dynamic_detection_active /\ static_detected)

\* a tick with active dynamic evidence and no static evidence reports no presence
C10_Witness ==
    /\ tick_pc = "sleep"
    /\ dynamic_detection_active
    /\ ~static_detected
    /\ ~robust_presence_detected
    /\ last_presence_time # now

\* the tick at time current_time has run to its end
TickDone == tick_pc = "sleep"

\* the step is the second half of a tick
TickEnds == tick_pc = "static" /\ tick_pc' = "sleep"

C12_TurnOffWhenDue ==
    (/\ TickDone
     /\ ~robust_presence_detected
     /\ relay_connected
     /\ last_presence_time # NoTime
     /\ current_time - last_presence_time >= RELAY_OFF_DELAY) => ~relay_on

\* C13, as the specification states it: after ticks at t = 0, 1, 2 that read
\* a moving and no static target and a tick at t = 3 that reads a static and
\* no moving target, robust presence is true and play() was invoked exactly
\* once; a tick at t = 4 that finds the audio playing invokes it no more.
C13_PlayExactlyOnce ==
    (TickDone /\ motion_log = <<0, 1, 2>>) =>
        /\ (now = 3 /\ static_log = <<3>>) =>
              (robust_presence_detected /\ plays = 1)
        /\ (now = 4 /\ static_log = <<3, 4>> /\ robust_presence_detected
                /\ playing /\ "play" \notin called) => plays = 1

\* C14, as the specification states it: after a tick with robust presence the
\* audio is playing already or play() was invoked in the tick.
C14_PlayWhenRobust ==
    (TickDone /\ robust_presence_detected) => (playing \/ "play" \in called)

\* C15, as the specification states it: after a tick with robust presence a
\* connected relay is energized.
C15_RelayOnWhenRobust ==
    (TickDone /\ robust_presence_detected /\ relay_connected) => relay_on

\* C16: a tick without robust presence that finds the audio playing invokes
\* stop(), whether or not the relay is connected, and leaves the audio
\* silent; after every tick without robust presence the audio is silent.
C16_StopWhenNotRobust ==
    [][(TickEnds /\ ~robust_presence_detected') =>
          /\ ~playing'
          /\ playing => "stop" \in called']_vars

\* a tick that read no target found the audio playing and stopped it
C16_Witness ==
    /\ TickDone
    /\ ~robust_presence_detected
    /\ ~presence_detected
    /\ "stop" \in called
    /\ ~playing

\* C17, as the specification states it: after a tick that ends three check
\* intervals or more after the presence flag became true, the flag having
\* stayed true, the audio is playing.
C17_PlayingWithinThree ==
    (/\ TickDone
     /\ presence_detected
     /\ presence_since # NoTime
     /\ current_time - presence_since >= 3 * CHECK_INTERVAL) => playing

----------------------------------------------------------------------------
\* Claims about the timeout of _read_frame

\* f is one whole frame of the channel: header, length field, as many payload
\* bytes as the length field says, footer
WellFramed(f, ch) ==
    /\ Len(f) >= 10
    /\ Slice(f, 0, 4) = HeaderOf(ch)
    /\ Len(f) = TotalFrameSize(UnpackH(Slice(f, 4, 6)))
    /\ Last(f, 4) = FooterOf(ch)

\* What a finished call returned: b'', 0 or the frame it has just assembled
EmptyOrFrame ==
    \/ rf_result = EmptyResult
    \/ /\ returned # <<>>
       /\ rf_result[1] = returned[Len(returned)]
       /\ WellFramed(rf_result[1], channel)
       /\ rf_result[2] = UnpackH(Slice(rf_result[1], 4, 6))

\* C18: every running _read_frame call returns (at the latest when its timeout
\* is met), whatever the stream holds, and what a call returned is always
\* either b'', 0 or one complete valid frame, never a partial buffer.
C18_ReturnsByTimeout ==
    /\ [](rf_pc = "idle" => EmptyOrFrame)
    /\ (rf_pc = "loop") ~> (rf_pc = "idle")

\* a call gathered the header and length field of a frame that never came
\* whole, met its timeout and returned b'', 0
C18_Witness ==
    /\ channel = "data"
    /\ sent = <<>>
    /\ wire = <<>>
    /\ inbuf = <<>>
    /\ cut
    /\ rf_pc = "idle"
    /\ rf_result = EmptyResult

----------------------------------------------------------------------------
\* Claims about the reader thread

\* C21: a failing read cycle never ends the reader: no reader thread leaves
\* its loop while the running flag is set and the sensor is connected, and a
\* cycle that ended with an exception or an empty result is followed by the
\* next read (unless the flag was cleared or the sensor disconnected).
C21_ReaderKeepsGoing ==
    /\ [][\A t \in Threads :
            (threads[t].pc # "exited" /\ threads'[t].pc = "exited")
                => ~(thread_running /\ is_connected)]_vars
    /\ \A t \in Threads :
          (threads[t].pc = "sleep" /\ threads[t].last \in {"empty", "exception"})
             ~> (threads[t].pc = "read" \/ ~thread_running \/ ~is_connected)

\* a reader is in read_data again after a cycle that ended with an exception
C21_Witness ==
    \E t \in Threads :
        /\ threads[t].pc = "read"
        /\ threads[t].last = "exception"
        /\ thread_running
        /\ is_connected

\* C22 (as claimed): when disconnect closes the port, every reader thread has
\* left its loop, whatever the read timeout.
C22_ClosedAfterReaderStopped ==
    [][(is_connected /\ ~is_connected') => \A t \in Threads : ~IsAlive(t)]_vars

C24_NoExchangeDuringRead ==
    ~(main_pc = "exchange" /\ \E t \in Threads : threads[t].pc = "read")

----------------------------------------------------------------------------
\* Claims about read_data and semantic decode errors

\* the data portion (type, marker, target data) of the frame a call parsed
DataPortionOf(rf) == Slice(rf[1], 6, 6 + rf[2])

\* the last read_data call parsed a well-framed data frame that carries the
\* marker 0xAA and fewer than 10 bytes behind the type and the marker
ShortPayloadRead ==
    /\ WellFramed(read_frame[1], "data")
    /\ Len(DataPortionOf(read_frame)) >= 2
    /\ DataPortionOf(read_frame)[2] = 170
    /\ Len(DataPortionOf(read_frame)) - 2 < 10

\* C19: a well-framed data frame with fewer than 10 bytes behind the type and
\* the marker is no reading: read_data leaves _last_data as it was, and the
\* status is_moving_target_detected and is_static_target_detected see is
\* still the one of the previous valid reading.
C19_ShortPayloadKeepsReading ==
    ShortPayloadRead =>
        /\ last_data = prev_data
        /\ target_status = StatusOf(prev_data)

\* the last read_data call got no frame before its timeout
TimedOutRead == read_frame = EmptyResult

\* the last read_data call parsed a well-framed data frame whose marker byte
\* is not 0xAA
WrongMarkerRead ==
    /\ WellFramed(read_frame[1], "data")
    /\ Len(DataPortionOf(read_frame)) >= 2
    /\ DataPortionOf(read_frame)[2] # 170

\* C20: after a read_data call that got no frame (timeout) or a frame whose
\* marker byte is not 0xAA, _last_data is what it was before the call, and
\* the call returned it (the empty dict when there is no last reading).
C20_NoFrameKeepsReading ==
    (TimedOutRead \/ WrongMarkerRead) =>
        /\ last_data = prev_data
        /\ read_result = prev_data
        /\ target_status = StatusOf(prev_data)

\* a reading with status 0x03 was in place when a frame whose marker is not 0xAA was
\* read: the reading is still there and the call returned it
C20_Witness ==
    /\ WrongMarkerRead
    /\ StatusOf(prev_data) = 3
    /\ last_data = prev_data
    /\ read_result = prev_data

----------------------------------------------------------------------------
\* Claims about the resynchronization of _read_frame

\* a pass of the timed loop reads what is waiting and runs the inner loop
ReadStep == rf_pc = "loop" /\ inbuf # <<>> /\ inbuf' = <<>>

\* what the inner loop of that pass works on, from the first header on
Scanned ==
    LET b == buffer \o inbuf
        header_pos == Find(b, HeaderOf(channel))
    IN  IF header_pos = -1 THEN <<>> ELSE From(b, header_pos)

CandidateSize(c) == TotalFrameSize(UnpackH(Slice(c, 4, 6)))

\* the candidate at the start of c is fully buffered and its last 4 bytes
\* are not the footer of the channel
Rejected(c, ch) ==
    /\ Len(c) >= 6
    /\ Len(c) >= CandidateSize(c)
    /\ Slice(c, CandidateSize(c) - 4, CandidateSize(c)) # FooterOf(ch)

\* a valid frame of the channel starts at offset i of c and is all there
FrameAt(c, i, ch) ==
    /\ Len(c) >= i + 6
    /\ Slice(c, i, i + 4) = HeaderOf(ch)
    /\ Len(c) >= i + CandidateSize(From(c, i))
    /\ Slice(c, i + CandidateSize(From(c, i)) - 4, i + CandidateSize(From(c, i)))
          = FooterOf(ch)

FrameFrom(c, i) == Slice(c, i, i + CandidateSize(From(c, i)))

HeaderlessNoise == {<<0>>, Slice(DATA_FRAME_HEADER, 0, 3)}

\* C28: when the buffer of a pass holds 4 or more bytes and no header, exactly
\* its last 3 bytes are kept and the call goes on; so a frame behind
\* headerless noise is returned by the call that gathered the noise, however
\* the bytes were split over the reads (the header split over two included).
C28_SplitHeaderRecognized ==
    /\ [][(ReadStep /\ Len(buffer \o inbuf) >= 4
                    /\ Find(buffer \o inbuf, HeaderOf(channel)) = 0 - 1) =>
            /\ buffer' = Last(buffer \o inbuf, 3)
            /\ rf_pc' = "loop"]_vars
    /\ [](\A g \in HeaderlessNoise, f \in ValidFrames("data") :
            (/\ channel = "data"
             /\ stream = g \o f
             /\ wire = <<>>
             /\ inbuf = <<>>
             /\ rf_pc = "idle"
             /\ ~cut) => returned = <<f>>)

\* a noise byte and the first 3 bytes of a header were gathered: the
\* noise byte is gone, the 3 header bytes are kept, the rest of the frame is
\* still to come
C28_Witness ==
    /\ channel = "data"
    /\ stream = <<0>> \o BuildFrame("data", <<>>)
    /\ rf_pc = "loop"
    /\ buffer = Slice(DATA_FRAME_HEADER, 0, 3)
    /\ inbuf \o wire = From(BuildFrame("data", <<>>), 3)
    /\ returned = <<>>
    /\ ~cut

\* C29: every non-empty frame _read_frame returned for a channel starts with
\* the header of that channel, ends with the footer of that same channel (not
\* the other channel's) and is 4 + 2 + L + 4 bytes long, L being the length
\* field at bytes 4..5 and the length returned with the frame.
C29_ReturnedFramesWellFormed ==
    /\ \A i \in 1..Len(returned) :
          /\ Slice(returned[i], 0, 4) = HeaderOf(channel)
          /\ Last(returned[i], 4) = FooterOf(channel)
          /\ Last(returned[i], 4) # FooterOf(OtherChannel(channel))
          /\ Len(returned[i]) = 4 + 2 + UnpackH(Slice(returned[i], 4, 6)) + 4
    /\ rf_result[1] # <<>> =>
          /\ returned # <<>>
          /\ rf_result[1] = returned[Len(returned)]
          /\ rf_result[2] = UnpackH(Slice(rf_result[1], 4, 6))

\* a frame with the data header and the command footer came first and was
\* gathered by a call; it was not returned, the valid frame behind it was
C29_Witness ==
    /\ stream = MixedFrame(channel) \o BuildFrame(channel, <<>>)
    /\ ~cut
    /\ wire = <<>>
    /\ returned = <<BuildFrame(channel, <<>>)>>

----------------------------------------------------------------------------
\* Claims about evidence that is no longer renewed

\* C25 (as claimed): once no new reading is decoded (after ReadingsUntil),
\* the evidence expires: when the last window of motion and the time the
\* dynamic detection stays active have gone by, a tick finds no robust
\* presence and leaves the audio stopped.
C25_EvidenceExpires ==
    (TickDone /\ current_time > ReadingsUntil + DYNAMIC_WINDOW
                                  + DYNAMIC_DETECTION_DURATION)
        => (~robust_presence_detected /\ ~playing)

\* C26 (as claimed): the dynamic evidence is active only after at least 3
\* distinct moving readings were decoded; one moving reading alone never
\* activates it and never makes the robust presence true.
C26_SingleBlipRejected ==
    (dynamic_detection_active \/ robust_presence_detected)
        => moving_decoded >= 3

----------------------------------------------------------------------------
\* Claims about the order of a command exchange

\* a pass of the innermost activation writes its frame
AttemptStep == stack # <<>> /\ exchanges' = exchanges + 1

\* the reply of the device to that frame was not the ACK with status 0
FaultyReply == faults' # faults

\* the outermost call ends with success at this step
EndsWithSuccess == stack' = <<>> /\ outcome'.result = "success"

\* C31 (as claimed): every attempt clears the input buffer, then writes the
\* frame, then reads; bytes received before the write are never taken as the
\* ACK: with such bytes in the buffer and no good reply from the device the
\* attempt does not succeed.
C31_NothingBeforeWriteTaken ==
    [][AttemptStep =>
          /\ Top.cleared
          /\ writes' = Append(writes, EncodeCommand(Top.word, Top.data))
          /\ (Len(stack) = 1 /\ inbuf # <<>> /\ FaultyReply) => ~EndsWithSuccess]_vars

\* C31 (amended): every attempt (the first and the retry) clears the input
\* buffer, which leaves nothing of the bytes received before, then writes
\* the frame, then reads; when no byte arrived between the clearing and the
\* write and the device sends no good reply, the attempt does not succeed.
C31_NothingBeforeClearTaken ==
    /\ [][(stack # <<>> /\ ~Top.cleared /\ Len(stack') = Len(stack)
            /\ stack'[Len(stack)].cleared)
              => (inbuf' = <<>> /\ writes' = writes)]_vars
    /\ [][AttemptStep =>
            /\ Top.cleared
            /\ writes' = Append(writes, EncodeCommand(Top.word, Top.data))
            /\ (Len(stack) = 1 /\ inbuf = <<>> /\ FaultyReply) => ~EndsWithSuccess]_vars

\* C31 witness: the retry of a call has cleared an input buffer that held
\* bytes received before, nothing is left of them and the frame is not
\* written yet
C31_Witness ==
    /\ Len(stack) = 1
    /\ Top.retry_attempted
    /\ Top.attempts = 1
    /\ Top.cleared
    /\ Top.discarded
    /\ inbuf = <<>>

\* C32 (as claimed): when the first attempt of a call reads a well-framed
\* response whose payload is shorter than 4 bytes (a frame of fewer than 14
\* bytes), the call treats it as a desync: it restarts the device (a nested
\* call with the restart word) before it retries.
C32_ShortResponseIsDesync ==
    [][(/\ AttemptStep
        /\ Len(stack) = 1
        /\ ~Top.retry_attempted
        /\ last_response'[1] # <<>>
        /\ Len(last_response'[1]) < Len(AckFrame(0, 0)))
          => (Len(stack') = 2 /\ stack'[2].word = CMD_RESTART)]_vars

\* C39 (as claimed): unless the enable-configuration exchange of a configure
\* call was acknowledged with success, the call writes enable frames and the
\* restart frames of its retry only, and once it has returned it has
\* returned failure.
C39_NothingWithoutEnable ==
    (/\ calls # <<>>
     /\ calls[1].word = CMD_ENABLE_CONFIG
     /\ calls[1].result # "success")
       => /\ \A i \in 1..Len(writes) :
                writes[i] \in {EncodeCommand(CMD_ENABLE_CONFIG, PackH(1)),
                               EncodeCommand(CMD_RESTART, <<>>)}
          /\ cfg_pc = "done" => cfg_result = "failure"

----------------------------------------------------------------------------
\* Claims about the motion window

\* the dynamic part of a tick runs at this step
DynamicStep == tick_pc = "due" /\ tick_pc' = "static"

\* C33: a tick whose pruned motion window holds 3 or more timestamps makes
\* the dynamic evidence active and sets active-until to its time + 300; a
\* tick with fewer leaves active-until as it was and makes the evidence
\* active exactly when active-until is set and its time is strictly before it.
C33_ActiveUntilRule ==
    [][DynamicStep =>
         IF Len(dynamic_detection_history') >= 3
         THEN /\ dynamic_detection_active'
              /\ dynamic_detection_active_until'
                     = current_time' + DYNAMIC_DETECTION_DURATION
         ELSE /\ dynamic_detection_active_until' = dynamic_detection_active_until
              /\ dynamic_detection_active' <=>
                     (/\ dynamic_detection_active_until # NoTime
                      /\ current_time' < dynamic_detection_active_until)]_vars

\* C33 witness: a tick with fewer than 3 timestamps in its window found the
\* evidence still active, strictly before an active-until set by an earlier tick
C33_Witness ==
    /\ tick_pc = "static"
    /\ Len(dynamic_detection_history) < 3
    /\ dynamic_detection_active
    /\ dynamic_detection_active_until > current_time
    /\ dynamic_detection_active_until < current_time + DYNAMIC_DETECTION_DURATION

\* the timestamps a sequence holds
Entries(history) == {history[i] : i \in 1..Len(history)}

\* C34: after the dynamic part of a tick the motion window holds timestamps
\* it held before and, only if the last reading has moving status, the time
\* of this tick, appended once; the timestamps are in non-decreasing order
\* and none is older than 3 seconds at the tick's time.
C34_WindowOfMovingTicks ==
    /\ [][DynamicStep =>
            /\ Entries(dynamic_detection_history')
                  \subseteq Entries(dynamic_detection_history)
                     \cup (IF IsMoving(target_status) THEN {current_time'} ELSE {})
            /\ Len(dynamic_detection_history') <= Len(dynamic_detection_history) + 1
            /\ Cardinality(Entries(dynamic_detection_history'))
                  = Len(dynamic_detection_history')]_vars
    /\ [](tick_pc # "due" =>
            /\ \A i \in 1..Len(dynamic_detection_history) :
                  /\ dynamic_detection_history[i] <= current_time
                  /\ current_time - dynamic_detection_history[i] <= DYNAMIC_WINDOW
            /\ \A i, j \in 1..Len(dynamic_detection_history) :
                  i <= j => dynamic_detection_history[i] <= dynamic_detection_history[j])

\* C34 witness: a tick without motion has pruned the window: it holds the
\* moving ticks of exactly 3 and 2 seconds ago, an older one is gone
C34_Witness ==
    /\ tick_pc = "static"
    /\ ~IsMoving(target_status)
    /\ dynamic_detection_history = <<current_time - DYNAMIC_WINDOW,
                                     current_time - DYNAMIC_WINDOW + 1>>
    /\ Len(motion_log) = 3

----------------------------------------------------------------------------
\* Claims about the lock around the shared reading

\* C35 (as claimed): the reader thread replaces _last_data only while it
\* holds _thread_lock, the lock the accessors hold when they read it.
C35_PublishedUnderLock ==
    [][last_data' # last_data => thread_lock = "reader"]_vars

\* the dynamic part of the running tick found a moving status (motion_log
\* holds the time of every such tick until it is full)
SawMotionThisTick ==
    motion_log # <<>> /\ motion_log[Len(motion_log)] = current_time

\* C36 (as claimed): the static part of a tick reads the reading its dynamic
\* part read: the moving bit of the reading the static part finds is the
\* moving bit the dynamic part of the same tick acted on.
C36_OneReadingPerTick ==
    [][(tick_pc = "static" /\ tick_pc' = "sleep" /\ Len(motion_log) < MaxLog)
          => (IsMoving(target_status) <=> SawMotionThisTick)]_vars

----------------------------------------------------------------------------
\* Claims about starting the reader thread

\* C37 (as claimed): on a connected sensor, when start_reading has returned
\* (it has started a thread, or it returns at once because a thread is
\* recorded and the running flag is set), a reader thread is alive.
C37_ReaderAliveAfterStart ==
    (is_connected /\ main_pc = "idle" /\ read_thread # NoThread /\ thread_running)
        => IsAlive(read_thread)

\* C38 (as claimed): at most one reader thread is in its loop at any time.
C38_AtMostOneReader ==
    Cardinality({t \in Threads : IsAlive(t)}) <= 1

----------------------------------------------------------------------------
\* Claims about the return of run

\* C40 (as claimed): when run has returned, no reader thread is running,
\* the serial port is closed, and a connected relay was told to turn off.
C40_CleanWhenRunReturns ==
    run_pc = "returned" =>
        /\ ~thread_running
        /\ \A t \in Threads : ~IsAlive(t)
        /\ ~is_connected
        /\ relay_connected => "turn_off" \in called

====
